---- MODULE Spec2Model ----
(***************************************************************************)
(* Onboarding and account-state lifecycle of the lawyer marketplace API:   *)
(* the Client aggregate, the Lawyer aggregate and the CompleteOnboarding   *)
(* use case over the client repository; the User aggregate, the admin     *)
(* use cases (list, ban, unban, change role) over the user table, and the *)
(* global error handler that turns a thrown error into an HTTP status;    *)
(* the route POST /onboarding/complete, the lawyer repository's replace   *)
(* of specializations and languages, UpdateUserProfile, and the reload of *)
(* a saved client.                                                        *)
(*                                                                         *)
(* Strings are sequences of one-character strings, so that trim() and      *)
(* length are computed.  Timestamps (touch()) are left out: no operation   *)
(* modelled here reads them.  The Lawyer's id, userId, middleName and     *)
(* country are left out as well: create stores them and no method reads   *)
(* them.  A call's outcome is a record: whether it returned, the          *)
(* exception it threw, and the entity as the call left it.                *)
(***************************************************************************)
EXTENDS Integers, Sequences, FiniteSets, TLC

VARIABLES
    client,        \* the Client aggregate under test (client.entity.ts)
    ccall,         \* the last call made on it: operation, arguments, outcome, state before
    lawyer,        \* the Lawyer aggregate under test
    lcall,         \* the last call made on it: operation, validity of its input, outcome
    lscript,       \* how far the calls made on it follow the onboarding steps in order
    dbClients,     \* committed rows of table clients
    dbClientSpecs, \* committed rows of table client_specializations
    dbUserOnb,     \* column user.onboarding_completed, per user id
    req,           \* the CompleteOnboarding requests in flight
    user,          \* the User aggregate under test (user.entity.ts)
    ucall,         \* the last call made on it: operation, arguments, outcome, state before
    dbUsers,       \* rows of table user, per account id
    areq,          \* the admin requests in flight
    resp,          \* the response errorHandler built for the last error handed to it
    hreq,          \* the POST /onboarding/complete request in flight
    dbLawyerSpecs, \* rows of table lawyer_specializations of one lawyer
    dbLawyerLangs, \* rows of table lawyer_languages of the same lawyer
    lsave,         \* the saveSpecializations / saveLanguages call in flight
    lread,         \* what the last findById of that lawyer returned
    now,           \* the clock read by new Date()
    preq           \* the UpdateUserProfile request in flight

vars ==
    <<client, ccall, lawyer, lcall, lscript, dbClients, dbClientSpecs, dbUserOnb, req,
      user, ucall, dbUsers, areq, resp, hreq,
      dbLawyerSpecs, dbLawyerLangs, lsave, lread, now, preq>>

clientVars == <<client, ccall>>
lawyerVars == <<lawyer, lcall, lscript>>
storeVars == <<dbClients, dbClientSpecs, dbUserOnb, req>>
userVars == <<user, ucall>>
adminVars == <<dbUsers, areq>>
httpVars == <<resp, hreq>>
lawyerDbVars == <<dbLawyerSpecs, dbLawyerLangs, lsave, lread>>
clockVars == <<now>>
profileVars == <<preq>>

-----------------------------------------------------------------------------
(* Bounds of the model *)

NumSpecIds == 4     \* specialization ids a caller may name: 1..NumSpecIds
MaxSpecIn == 4      \* longest specializationIds list handed to Client.create
MaxPrimaryIn == 6   \* most primary specializations handed to saveSpecializations
MaxSecondaryIn == 4 \* most secondary specializations handed to saveSpecializations
MaxLangIn == 1      \* most language ids handed to saveSpecializations
NumRequests == 2    \* concurrent CompleteOnboarding requests
NumAdminReqs == 2   \* concurrent admin requests
MaxUserEvents == 2  \* events a User aggregate records before the calls that record one stop
MaxDocs == 1        \* most documents pushed on a lawyer
MaxNow == 2

-----------------------------------------------------------------------------
(* Strings and arrays *)

RECURSIVE TrimStart(_)
TrimStart(s) ==
    IF Len(s) > 0 /\ Head(s) = " " THEN TrimStart(Tail(s)) ELSE s

RECURSIVE TrimEnd(_)
TrimEnd(s) ==
    IF Len(s) > 0 /\ s[Len(s)] = " " THEN TrimEnd(SubSeq(s, 1, Len(s) - 1)) ELSE s

\* String.prototype.trim
Trim(s) == TrimEnd(TrimStart(s))

\* Array.prototype.includes
Includes(a, x) == \E i \in 1..Len(a) : a[i] = x

\* Array.prototype.indexOf, 1-based; 0 stands for -1
IndexOf(a, x) ==
    IF Includes(a, x) THEN CHOOSE i \in 1..Len(a) : a[i] = x /\ \A j \in 1..(i - 1) : a[j] # x
    ELSE 0

\* Array.prototype.splice(index, 1)
SpliceOne(a, i) == SubSeq(a, 1, i - 1) \o SubSeq(a, i + 1, Len(a))

SeqsUpTo(S, n) == UNION {[1..k -> S] : k \in 0..n}

\* the outcome of a call: it returned (ok) or threw err; ent is the aggregate afterwards
Returned(e) == [ok |-> TRUE, err |-> "none", ent |-> e]
Threw(kind, msg, e) == [ok |-> FALSE, err |-> <<kind, msg>>, ent |-> e]

-----------------------------------------------------------------------------
(* Client aggregate: src/domain/client/entities/client.entity.ts *)

MaxClientSpecializations == 3
MinClientSpecializations == 1
MinNameLength == 2

Undefined == <<"undefined">>

SpecIdSet == 1..NumSpecIds

\* values a caller may pass as a name
NameInputs == { <<>>, <<" ", "J", " ">>, <<"J", "o">>, <<" ", "J", "o", " ">> }
UserIdInputs == { <<" ">>, <<"u", "1">> }
PhoneInputs == { <<"+", "1">> }
CompanyInputs == { <<"T", "C">> }
LocationValue == [country |-> <<"U", "S">>, state |-> <<"C", "A">>]

NoClient ==
    [exists |-> FALSE, userId |-> <<>>, name |-> <<>>, phoneNumber |-> Undefined,
     location |-> LocationValue, company |-> Undefined,
     specializationIds |-> <<>>, onboardingCompleted |-> FALSE]

\* Client.validateProps: the message of the exception it throws, "" when it returns
validateProps(props) ==
    IF Len(props.userId) = 0 \/ Len(Trim(props.userId)) = 0 THEN "User ID is required"
    ELSE IF Len(props.name) = 0 \/ Len(Trim(props.name)) < MinNameLength
        THEN "Name must be at least 2 characters"
    ELSE IF Len(props.specializationIds) = 0 THEN "At least one specialization is required"
    ELSE IF Len(props.specializationIds) > MaxClientSpecializations
        THEN "Maximum 3 specializations allowed"
    ELSE ""

\* Client.create with the mutation "keeps the caller's onboardingCompleted"
Client_create_KeepsInput(props) ==
    IF validateProps(props) # "" THEN Threw("ValidationException", validateProps(props), NoClient)
    ELSE Returned([exists |-> TRUE, userId |-> props.userId, name |-> props.name,
                   phoneNumber |-> props.phoneNumber, location |-> props.location,
                   company |-> props.company,
                   specializationIds |-> props.specializationIds,
                   onboardingCompleted |-> props.onboardingCompleted])

\* Client.create with the mutation "accepts up to 4 specializations"
Client_create_NoMax(props) ==
    IF validateProps(props) \notin {"", "Maximum 3 specializations allowed"}
    THEN Threw("ValidationException", validateProps(props), NoClient)
    ELSE Returned([exists |-> TRUE, userId |-> props.userId, name |-> props.name,
                   phoneNumber |-> props.phoneNumber, location |-> props.location,
                   company |-> props.company,
                   specializationIds |-> props.specializationIds,
                   onboardingCompleted |-> FALSE])

\* Client.create
Client_create(props) ==
    IF validateProps(props) # "" THEN Threw("ValidationException", validateProps(props), NoClient)
    ELSE Returned([exists |-> TRUE, userId |-> props.userId, name |-> props.name,
                   phoneNumber |-> props.phoneNumber, location |-> props.location,
                   company |-> props.company,
                   specializationIds |-> props.specializationIds,
                   onboardingCompleted |-> FALSE])

\* Client.completeOnboarding
Client_completeOnboarding(c) ==
    IF c.onboardingCompleted
        THEN Threw("ValidationException", "Onboarding already completed", c)
    ELSE IF Len(c.specializationIds) = 0
        THEN Threw("ValidationException", "Specializations are required to complete onboarding", c)
    ELSE Returned([c EXCEPT !.onboardingCompleted = TRUE])

\* Client.addSpecialization with the mutation "the duplicate check is missing"
Client_addSpecialization_NoDup(c, specializationId) ==
    IF Len(c.specializationIds) >= MaxClientSpecializations
        THEN Threw("ValidationException", "Maximum 3 specializations allowed", c)
    ELSE Returned([c EXCEPT !.specializationIds = Append(@, specializationId)])

\* Client.addSpecialization
Client_addSpecialization(c, specializationId) ==
    IF Len(c.specializationIds) >= MaxClientSpecializations
        THEN Threw("ValidationException", "Maximum 3 specializations allowed", c)
    ELSE IF Includes(c.specializationIds, specializationId)
        THEN Threw("ValidationException", "Specialization already exists", c)
    ELSE Returned([c EXCEPT !.specializationIds = Append(@, specializationId)])

\* Client.removeSpecialization
Client_removeSpecialization(c, specializationId) ==
    IF Len(c.specializationIds) <= MinClientSpecializations
        THEN Threw("ValidationException", "At least one specialization is required", c)
    ELSE IF IndexOf(c.specializationIds, specializationId) = 0
        THEN Threw("ValidationException", "Specialization not found", c)
    ELSE Returned([c EXCEPT !.specializationIds =
                       SpliceOne(@, IndexOf(c.specializationIds, specializationId))])

\* Client.updateProfile: a field of updates that is Undefined was not provided.
\* A name that fails validation throws before any field is assigned.
Client_updateProfile(c, updates) ==
    IF updates.name # Undefined /\ Len(Trim(updates.name)) < MinNameLength
        THEN Threw("ValidationException", "Name must be at least 2 characters", c)
    ELSE Returned([c EXCEPT
            !.name = IF updates.name # Undefined THEN updates.name ELSE @,
            !.phoneNumber = IF updates.phoneNumber # Undefined THEN updates.phoneNumber ELSE @,
            !.company = IF updates.company # Undefined THEN updates.company ELSE @])

NoCall == [op |-> "none", arg |-> <<>>, ok |-> TRUE, err |-> "none", pre |-> NoClient]

CallOf(op, arg, r, pre) == [op |-> op, arg |-> arg, ok |-> r.ok, err |-> r.err, pre |-> pre]

ClientCreate ==
    /\ ~client.exists
    /\ \E u \in UserIdInputs, n \in NameInputs, ids \in SeqsUpTo(SpecIdSet, MaxSpecIn),
          oc \in BOOLEAN, ph \in PhoneInputs \cup {Undefined}, co \in CompanyInputs :
          LET props == [userId |-> u, name |-> n, phoneNumber |-> ph, location |-> LocationValue,
                        company |-> co, specializationIds |-> ids, onboardingCompleted |-> oc]
              r == Client_create(props)
          IN /\ client' = r.ent
             /\ ccall' = CallOf("create", <<oc>>, r, client)
    /\ UNCHANGED <<profileVars, clockVars, lawyerDbVars, httpVars, userVars, adminVars, lawyerVars, storeVars>>

ClientCompleteOnboarding ==
    /\ client.exists
    /\ LET r == Client_completeOnboarding(client)
       IN /\ client' = r.ent
          /\ ccall' = CallOf("completeOnboarding", <<>>, r, client)
    /\ UNCHANGED <<profileVars, clockVars, lawyerDbVars, httpVars, userVars, adminVars, lawyerVars, storeVars>>

ClientAddSpecialization ==
    /\ client.exists
    /\ \E id \in SpecIdSet :
          LET r == Client_addSpecialization(client, id)
          IN /\ client' = r.ent
             /\ ccall' = CallOf("addSpecialization", <<id>>, r, client)
    /\ UNCHANGED <<profileVars, clockVars, lawyerDbVars, httpVars, userVars, adminVars, lawyerVars, storeVars>>

ClientRemoveSpecialization ==
    /\ client.exists
    /\ \E id \in SpecIdSet :
          LET r == Client_removeSpecialization(client, id)
          IN /\ client' = r.ent
             /\ ccall' = CallOf("removeSpecialization", <<id>>, r, client)
    /\ UNCHANGED <<profileVars, clockVars, lawyerDbVars, httpVars, userVars, adminVars, lawyerVars, storeVars>>

ClientUpdateProfile ==
    /\ client.exists
    /\ \E n \in NameInputs \cup {Undefined}, ph \in PhoneInputs \cup {Undefined},
          co \in CompanyInputs \cup {Undefined} :
          LET r == Client_updateProfile(client, [name |-> n, phoneNumber |-> ph, company |-> co])
          IN /\ client' = r.ent
             /\ ccall' = CallOf("updateProfile", <<n>>, r, client)
    /\ UNCHANGED <<profileVars, clockVars, lawyerDbVars, httpVars, userVars, adminVars, lawyerVars, storeVars>>

ClientNext ==
    \/ ClientCreate
    \/ ClientCompleteOnboarding
    \/ ClientAddSpecialization
    \/ ClientRemoveSpecialization
    \/ ClientUpdateProfile

-----------------------------------------------------------------------------
(* Lawyer aggregate: src/domain/lawyer/events/lawyer-created.event.ts, and  *)
(* its value objects bar-credentials.vo.ts, education.vo.ts, Email          *)

MaxPrimarySpecializations == 5
MaxSecondarySpecializations == 3
MinBarNumberLength == 5
MinSchoolLength == 3
MinGraduationYear == 1900
MinPersonNameLength == 2
MinPhoneLength == 10

\* new Date().getFullYear() in Education.create
CurrentYear == 2026

OnboardingSteps == {"basic_info", "credentials", "specializations", "submitted"}

NoBarCredentials == [present |-> FALSE, barNumber |-> <<>>, issueDate |-> <<>>, expiryDate |-> 0]
NoEducation == [present |-> FALSE, school |-> <<>>, graduationYear |-> 0]

NoLawyer ==
    [exists |-> FALSE, firstName |-> <<>>, lastName |-> <<>>, email |-> <<>>,
     phoneNumber |-> <<>>, barCredentials |-> NoBarCredentials, education |-> NoEducation,
     currentFirm |-> Undefined, onboardingStep |-> "basic_info",
     applicationStatus |-> "pending", profileCompleted |-> FALSE,
     documents |-> <<>>, specializations |-> <<>>, languages |-> <<>>, events |-> <<>>]

\* the regular expression /^[^\s@]+@[^\s@]+\.[^\s@]+$/ of Email.isValid
EmailRegexTest(e) ==
    /\ \A i \in 1..Len(e) : e[i] # " "
    /\ Cardinality({i \in 1..Len(e) : e[i] = "@"}) = 1
    /\ LET at == CHOOSE i \in 1..Len(e) : e[i] = "@"
       IN /\ at > 1
          /\ \E d \in (at + 2)..(Len(e) - 1) : e[d] = "."

\* BarCredentials.create(barNumber, issueDate, expiryDate): "" or the message thrown
BarCredentialsError(barNumber, issueDate) ==
    IF Len(barNumber) = 0 \/ Len(Trim(barNumber)) < MinBarNumberLength
        THEN "Bar number must be at least 5 characters"
    ELSE IF Len(issueDate) = 0 THEN "Issue date is required"
    ELSE ""

\* Education.create(school, graduationYear): "" or the message thrown
EducationError(school, graduationYear) ==
    IF Len(school) = 0 \/ Len(Trim(school)) < MinSchoolLength
        THEN "Law school name must be at least 3 characters"
    ELSE IF graduationYear > CurrentYear THEN "Graduation year cannot be in the future"
    ELSE IF graduationYear < MinGraduationYear THEN "Invalid graduation year"
    ELSE ""

\* Lawyer.create
Lawyer_create(in) ==
    IF Len(Trim(in.firstName)) < MinPersonNameLength
        THEN Threw("ValidationException", "First name must be at least 2 characters", NoLawyer)
    ELSE IF Len(Trim(in.lastName)) < MinPersonNameLength
        THEN Threw("ValidationException", "Last name must be at least 2 characters", NoLawyer)
    ELSE IF Len(Trim(in.phoneNumber)) < MinPhoneLength
        THEN Threw("ValidationException", "Invalid phone number", NoLawyer)
    ELSE IF ~EmailRegexTest(in.email)
        THEN Threw("ValidationException", "Invalid email format", NoLawyer)
    ELSE Returned([NoLawyer EXCEPT
            !.exists = TRUE,
            !.firstName = Trim(in.firstName),
            !.lastName = Trim(in.lastName),
            !.email = Trim(in.email),
            !.phoneNumber = Trim(in.phoneNumber),
            !.events = <<[type |-> "LawyerCreated", step |-> "", nextStep |-> ""]>>])

\* Lawyer.saveCredentials with the mutation "the step guard is missing"
Lawyer_saveCredentials_NoGuard(l, in) ==
    IF BarCredentialsError(in.barNumber, in.barAssociation) # ""
        THEN Threw("ValidationException", BarCredentialsError(in.barNumber, in.barAssociation), l)
    ELSE IF EducationError(in.lawSchool, in.graduationYear) # ""
        THEN Threw("ValidationException", EducationError(in.lawSchool, in.graduationYear), l)
    ELSE Returned([l EXCEPT
            !.barCredentials = [present |-> TRUE, barNumber |-> Trim(in.barNumber),
                                issueDate |-> in.barAssociation,
                                expiryDate |-> in.yearOfBarAdmission],
            !.education = [present |-> TRUE, school |-> Trim(in.lawSchool),
                           graduationYear |-> in.graduationYear],
            !.currentFirm = IF in.currentFirm = Undefined THEN Undefined ELSE Trim(in.currentFirm),
            !.onboardingStep = "credentials",
            !.events = Append(@, [type |-> "LawyerOnboardingStepCompleted",
                                  step |-> "credentials", nextStep |-> "specializations"])])

\* Lawyer.saveCredentials: the bar credentials are assigned before Education.create
\* runs, so an education that fails validation leaves them assigned.
Lawyer_saveCredentials(l, in) ==
    IF l.onboardingStep # "basic_info"
        THEN Threw("InvalidOnboardingStepError",
                   "Cannot save credentials. Complete basic info first.", l)
    ELSE IF BarCredentialsError(in.barNumber, in.barAssociation) # ""
        THEN Threw("ValidationException", BarCredentialsError(in.barNumber, in.barAssociation), l)
    ELSE LET withBar == [l EXCEPT !.barCredentials =
                            [present |-> TRUE, barNumber |-> Trim(in.barNumber),
                             issueDate |-> in.barAssociation,
                             expiryDate |-> in.yearOfBarAdmission]]
         IN IF EducationError(in.lawSchool, in.graduationYear) # ""
                THEN Threw("ValidationException",
                           EducationError(in.lawSchool, in.graduationYear), withBar)
            ELSE Returned([withBar EXCEPT
                    !.education = [present |-> TRUE, school |-> Trim(in.lawSchool),
                                   graduationYear |-> in.graduationYear],
                    !.currentFirm =
                        IF in.currentFirm = Undefined THEN Undefined ELSE Trim(in.currentFirm),
                    !.onboardingStep = "credentials",
                    !.events = Append(@, [type |-> "LawyerOnboardingStepCompleted",
                                          step |-> "credentials",
                                          nextStep |-> "specializations"])])

Tagged(specs, type) ==
    [i \in 1..Len(specs) |->
        [id |-> specs[i].id, yearsOfExperience |-> specs[i].yearsOfExperience, type |-> type]]

\* the body of Lawyer.saveSpecializations after its step guard
SaveSpecializationsBody(l, in) ==
    IF Len(in.primarySpecializations) > MaxPrimarySpecializations
        THEN Threw("ValidationException", "Maximum 5 primary specializations allowed", l)
    ELSE IF Len(in.secondarySpecializations) > MaxSecondarySpecializations
        THEN Threw("ValidationException", "Maximum 3 secondary specializations allowed", l)
    ELSE IF Len(in.languageIds) = 0
        THEN Threw("ValidationException", "At least one language is required", l)
    ELSE Returned([l EXCEPT
            !.specializations = Tagged(in.primarySpecializations, "primary")
                                \o Tagged(in.secondarySpecializations, "secondary"),
            !.languages = in.languageIds,
            !.onboardingStep = "specializations",
            !.events = Append(@, [type |-> "LawyerOnboardingStepCompleted",
                                  step |-> "specializations", nextStep |-> "submitted"])])

\* Lawyer.saveSpecializations with the mutation "the step guard is missing"
Lawyer_saveSpecializations_NoGuard(l, in) == SaveSpecializationsBody(l, in)

\* Lawyer.saveSpecializations
Lawyer_saveSpecializations(l, in) ==
    IF l.onboardingStep # "credentials"
        THEN Threw("InvalidOnboardingStepError",
                   "Cannot save specializations. Complete credentials first.", l)
    ELSE SaveSpecializationsBody(l, in)

Submitted(l) ==
    [l EXCEPT !.onboardingStep = "submitted",
              !.profileCompleted = TRUE,
              !.events = Append(@, [type |-> "LawyerOnboardingSubmitted",
                                    step |-> "", nextStep |-> ""])]

\* Lawyer.submitForReview with the mutation "the documents check is missing"
Lawyer_submitForReview_NoDocuments(l) ==
    IF l.onboardingStep # "specializations"
        THEN Threw("IncompleteOnboardingError",
                   "Cannot submit. Complete all onboarding steps first.", l)
    ELSE IF ~l.barCredentials.present \/ ~l.education.present
        THEN Threw("IncompleteOnboardingError", "Bar credentials and education are required", l)
    ELSE IF Len(l.specializations) = 0
        THEN Threw("IncompleteOnboardingError", "At least one specialization is required", l)
    ELSE Returned(Submitted(l))

\* Lawyer.submitForReview with the mutation "a failed completeness check still
\* records the submitted event"
Lawyer_submitForReview_EventFirst(l) ==
    IF l.onboardingStep # "specializations"
        THEN Threw("IncompleteOnboardingError",
                   "Cannot submit. Complete all onboarding steps first.", l)
    ELSE IF ~l.barCredentials.present \/ ~l.education.present
        THEN Threw("IncompleteOnboardingError", "Bar credentials and education are required", l)
    ELSE IF Len(l.documents) = 0
        THEN Threw("IncompleteOnboardingError", "At least one document is required",
                   [l EXCEPT !.events = Append(@, [type |-> "LawyerOnboardingSubmitted",
                                                   step |-> "", nextStep |-> ""])])
    ELSE IF Len(l.specializations) = 0
        THEN Threw("IncompleteOnboardingError", "At least one specialization is required", l)
    ELSE Returned(Submitted(l))

\* Lawyer.submitForReview
Lawyer_submitForReview(l) ==
    IF l.onboardingStep # "specializations"
        THEN Threw("IncompleteOnboardingError",
                   "Cannot submit. Complete all onboarding steps first.", l)
    ELSE IF ~l.barCredentials.present \/ ~l.education.present
        THEN Threw("IncompleteOnboardingError", "Bar credentials and education are required", l)
    ELSE IF Len(l.documents) = 0
        THEN Threw("IncompleteOnboardingError", "At least one document is required", l)
    ELSE IF Len(l.specializations) = 0
        THEN Threw("IncompleteOnboardingError", "At least one specialization is required", l)
    ELSE Returned(Submitted(l))

(* Calls on the Lawyer aggregate *)

FirstNameInputs == { <<"A">>, <<" ", "A", " ">>, <<"A", "l">> }
LastNameInputs == { <<"L">>, <<"L", "i">> }
LawyerPhoneInputs == { <<"5", "5", "5", "1", "2", "3", "4", "5", "6">>,
                       <<"5", "5", "5", "1", "2", "3", "4", "5", "6", "7">> }
EmailInputs == { <<"a", "@", "b">>, <<"a", "@", "b", ".", "c">>, <<"a", " ", "@", "b", ".", "c">> }

BarNumberInputs == { <<" ", "B", "1", "2", "3", " ">>, <<"B", "1", "2", "3", "4">> }
BarAssociationInputs == { <<>>, <<"N", "Y">> }
LawSchoolInputs == { <<" ", "H", "L", " ">>, <<"H", "L", "S">> }
GraduationYearInputs == { MinGraduationYear - 1, MinGraduationYear, CurrentYear, CurrentYear + 1 }
CurrentFirmInputs == { <<" ", "F">> }

CredentialsInputs ==
    [barNumber : BarNumberInputs, barAssociation : BarAssociationInputs,
     yearOfBarAdmission : {2010}, lawSchool : LawSchoolInputs,
     graduationYear : GraduationYearInputs, currentFirm : CurrentFirmInputs]

\* n practice areas: only the number of entries is read by the aggregate
PracticeAreas(first, n) == [i \in 1..n |-> [id |-> first + i, yearsOfExperience |-> i]]

SpecializationsInputs ==
    { [primarySpecializations |-> PracticeAreas(0, np),
       secondarySpecializations |-> PracticeAreas(np, ns),
       languageIds |-> [i \in 1..nl |-> i]] :
      np \in 0..MaxPrimaryIn, ns \in 0..MaxSecondaryIn, nl \in 0..MaxLangIn }

\* valid data in the sense of the onboarding contract: the value objects accept
\* the credentials; at most 5 primary and 3 secondary specializations, at least
\* one of them, and at least one language
ValidCredentials(in) ==
    /\ Len(Trim(in.barNumber)) >= 5
    /\ Len(in.barAssociation) > 0
    /\ Len(Trim(in.lawSchool)) >= 3
    /\ in.graduationYear >= 1900
    /\ in.graduationYear <= CurrentYear

ValidSpecializations(in) ==
    /\ Len(in.primarySpecializations) <= 5
    /\ Len(in.secondarySpecializations) <= 3
    /\ Len(in.primarySpecializations) + Len(in.secondarySpecializations) >= 1
    /\ Len(in.languageIds) >= 1

NoLawyerCall == [op |-> "none", valid |-> TRUE, ok |-> TRUE, err |-> "none"]

LawyerCallOf(op, valid, r) == [op |-> op, valid |-> valid, ok |-> r.ok, err |-> r.err]

\* The onboarding steps in order: saveCredentials, saveSpecializations and
\* submitForReview, each with valid data.  pos counts the calls made so far when
\* they are exactly the first pos steps, and is -1 once any other call was made;
\* ok tells whether every one of them returned.
ScriptOps == <<"saveCredentials", "saveSpecializations", "submitForReview">>

ScriptStart == [pos |-> 0, ok |-> TRUE]

Followed(sc, op, valid, r) ==
    IF sc.pos \in {0, 1, 2} /\ op = ScriptOps[sc.pos + 1] /\ valid
        THEN [pos |-> sc.pos + 1, ok |-> sc.ok /\ r.ok]
    ELSE IF sc.pos = 3 THEN sc
    ELSE [pos |-> -1, ok |-> sc.ok]

LawyerCreate ==
    /\ ~lawyer.exists
    /\ \E f \in FirstNameInputs, ln \in LastNameInputs, ph \in LawyerPhoneInputs,
          e \in EmailInputs :
          LET r == Lawyer_create([firstName |-> f, lastName |-> ln, phoneNumber |-> ph,
                                  email |-> e])
          IN /\ lawyer' = r.ent
             /\ lcall' = LawyerCallOf("create", TRUE, r)
    /\ lscript' = ScriptStart
    /\ UNCHANGED <<profileVars, clockVars, lawyerDbVars, httpVars, userVars, adminVars, clientVars, storeVars>>

LawyerSaveCredentials ==
    /\ lawyer.exists
    /\ \E in \in CredentialsInputs :
          LET r == Lawyer_saveCredentials(lawyer, in)
          IN /\ lawyer' = r.ent
             /\ lcall' = LawyerCallOf("saveCredentials", ValidCredentials(in), r)
             /\ lscript' = Followed(lscript, "saveCredentials", ValidCredentials(in), r)
    /\ UNCHANGED <<profileVars, clockVars, lawyerDbVars, httpVars, userVars, adminVars, clientVars, storeVars>>

LawyerSaveSpecializations ==
    /\ lawyer.exists
    /\ \E in \in SpecializationsInputs :
          LET r == Lawyer_saveSpecializations(lawyer, in)
          IN /\ lawyer' = r.ent
             /\ lcall' = LawyerCallOf("saveSpecializations", ValidSpecializations(in), r)
             /\ lscript' = Followed(lscript, "saveSpecializations", ValidSpecializations(in), r)
    /\ UNCHANGED <<profileVars, clockVars, lawyerDbVars, httpVars, userVars, adminVars, clientVars, storeVars>>

LawyerSubmitForReview ==
    /\ lawyer.exists
    /\ LET r == Lawyer_submitForReview(lawyer)
       IN /\ lawyer' = r.ent
          /\ lcall' = LawyerCallOf("submitForReview", TRUE, r)
          /\ lscript' = Followed(lscript, "submitForReview", TRUE, r)
    /\ UNCHANGED <<profileVars, clockVars, lawyerDbVars, httpVars, userVars, adminVars, clientVars, storeVars>>

\* The aggregate has no method that adds a document.  Its accessor
\* "get documents()" returns the internal array, so a caller's push on it is the
\* one way the documents of an aggregate built by create become non-empty.
LawyerPushDocument ==
    /\ lawyer.exists
    /\ Len(lawyer.documents) < MaxDocs
    /\ LET r == Returned([lawyer EXCEPT !.documents = Append(@, "bar_certificate")])
       IN /\ lawyer' = r.ent
          /\ lcall' = LawyerCallOf("documents.push", TRUE, r)
          /\ lscript' = Followed(lscript, "documents.push", TRUE, r)
    /\ UNCHANGED <<profileVars, clockVars, lawyerDbVars, httpVars, userVars, adminVars, clientVars, storeVars>>

LawyerNext ==
    \/ LawyerCreate
    \/ LawyerSaveCredentials
    \/ LawyerSaveSpecializations
    \/ LawyerSubmitForReview
    \/ LawyerPushDocument

\* Lawyer.reconstitute as LawyerMapper.toDomain calls it: no validation and no
\* event.  Step, profileCompleted, credentials and education come from the
\* lawyers row; documents, specializations and languages from their own tables.
ReconstitutedLawyers ==
    { [NoLawyer EXCEPT
         !.exists = TRUE,
         !.firstName = <<"A", "l">>, !.lastName = <<"L", "i">>,
         !.email = <<"a", "@", "b", ".", "c">>,
         !.phoneNumber = <<"5", "5", "5", "1", "2", "3", "4", "5", "6", "7">>,
         !.onboardingStep = st,
         !.profileCompleted = (st = "submitted"),
         !.barCredentials = IF bar THEN [present |-> TRUE, barNumber |-> <<"B", "1", "2", "3", "4">>,
                                         issueDate |-> <<"N", "Y">>, expiryDate |-> 2010]
                            ELSE NoBarCredentials,
         !.education = IF edu THEN [present |-> TRUE, school |-> <<"H", "L", "S">>,
                                    graduationYear |-> CurrentYear]
                       ELSE NoEducation,
         !.documents = [i \in 1..nd |-> "bar_certificate"],
         !.specializations = Tagged(PracticeAreas(0, ns), "primary"),
         !.languages = [i \in 1..nl |-> i]] :
      st \in OnboardingSteps, bar \in BOOLEAN, edu \in BOOLEAN,
      nd \in 0..1, ns \in 0..1, nl \in 0..1 }

-----------------------------------------------------------------------------
(* CompleteOnboarding use case, ClientDomainService, Location, and the client *)
(* repository over tables clients, client_specializations and user            *)

\* ids of the rows of table specializations
Catalog == {1, 2, 3, 4}

\* an id that no row of table specializations has
UnknownSpecId == 9

Users == { <<"u", "1">>, <<"u", "2">> }
Requests == 1..NumRequests

\* Location.create of the client domain: "" or the message thrown
LocationError(props) ==
    IF Len(props.country) = 0 \/ Len(Trim(props.country)) = 0 THEN "Country is required"
    ELSE IF Len(props.state) = 0 \/ Len(Trim(props.state)) = 0 THEN "State is required"
    ELSE ""

\* Location.create with the mutation "whitespace counts as a country"
Location_create_NoTrim(props) ==
    IF Len(props.country) = 0 THEN Threw("ValidationException", "Country is required", props)
    ELSE IF Len(props.state) = 0 \/ Len(Trim(props.state)) = 0
        THEN Threw("ValidationException", "State is required", props)
    ELSE Returned([country |-> Trim(props.country), state |-> Trim(props.state)])

\* Location.create
Location_create(props) ==
    IF LocationError(props) # "" THEN Threw("ValidationException", LocationError(props), props)
    ELSE Returned([country |-> Trim(props.country), state |-> Trim(props.state)])

\* DrizzleSpecializationRepository.findByIds: the ids of the rows found, one per
\* row of the table whose id is IN the list
findByIds(ids) ==
    IF Len(ids) = 0 THEN {} ELSE {c \in Catalog : Includes(ids, c)}

\* Array.prototype.filter(id => !foundIds.includes(id))
RECURSIVE NotFound(_, _)
NotFound(ids, found) ==
    IF Len(ids) = 0 THEN <<>>
    ELSE (IF Head(ids) \in found THEN <<>> ELSE <<Head(ids)>>) \o NotFound(Tail(ids), found)

\* ClientDomainService.validateSpecializations: <<>> when it returns, else the
\* exception with the invalid ids its message lists
validateSpecializations(specializationIds) ==
    IF Cardinality(findByIds(specializationIds)) # Len(specializationIds)
        THEN <<"ValidationException", "Invalid specialization IDs",
               NotFound(specializationIds, findByIds(specializationIds))>>
    ELSE <<>>

\* DrizzleClientRepository.findByUserId, as far as the use case reads it: is
\* there a committed clients row for the user
findByUserId(userId) == \E row \in dbClients : row.userId = userId

\* ClientDomainService.ensureClientDoesNotExist: <<>> when it returns
ensureClientDoesNotExist(userId) ==
    IF findByUserId(userId)
        THEN <<"ClientAlreadyExistsError", "Client profile already exists for this user">>
    ELSE <<>>

\* CompleteOnboardingUseCase.execute from validateSpecializations (step 2) to
\* client.completeOnboarding() (step 5): the aggregate handed to save, or the
\* exception thrown on the way
BuildClient(dto) ==
    IF validateSpecializations(dto.specializationIds) # <<>>
        THEN [ok |-> FALSE, err |-> validateSpecializations(dto.specializationIds),
              ent |-> NoClient]
    ELSE LET loc == Location_create([country |-> dto.country, state |-> dto.state])
         IN IF ~loc.ok THEN [ok |-> FALSE, err |-> loc.err, ent |-> NoClient]
            ELSE LET c == Client_create([userId |-> dto.userId, name |-> dto.name,
                                         phoneNumber |-> Undefined, location |-> loc.ent,
                                         company |-> Undefined,
                                         specializationIds |-> dto.specializationIds,
                                         onboardingCompleted |-> FALSE])
                 IN IF ~c.ok THEN c ELSE Client_completeOnboarding(c.ent)

\* the unique constraint on clients.user_id with the mutation "the column is
\* not unique"
UniqueViolation_NoConstraint(userId) == FALSE

\* the unique constraint on clients.user_id, against the committed rows
UniqueViolation(userId) == \E row \in dbClients : row.userId = userId

\* pcs at which a request's transaction holds an uncommitted clients row
HoldsClientRow == {"tx_specs", "tx_user", "tx_commit"}

\* an insert waits for a concurrent transaction that holds an uncommitted row
\* with the same unique key
BlockedByInsert(r) ==
    \E o \in Requests \ {r} : req[o].pc \in HoldsClientRow /\ req[o].userId = req[r].userId

IdleReq ==
    [pc |-> "idle", userId |-> <<>>, client |-> NoClient, saveCalled |-> FALSE,
     defect |-> FALSE, ok |-> FALSE, err |-> <<>>, specializationCount |-> 0,
     idsRead |-> FALSE, ids |-> <<>>]

Failed(q, err) == [q EXCEPT !.pc = "done", !.ok = FALSE, !.err = err, !.client = NoClient]

NameInputsUC == { <<" ", "J", " ">>, <<"J", "o">> }
CountryInputs == { <<" ">>, <<" ", "U", "S">> }
StateInputs == { <<" ">>, <<"C", "A">> }
SpecListInputs ==
    { <<>>, <<1>>, <<2, 1>>, <<1, 2, 3>>, <<1, 1>>, <<UnknownSpecId>>,
      <<1, UnknownSpecId>>, <<1, 2, 3, 4>> }

\* the defects of a request's input that the contract says make it fail
Defective(dto) ==
    \/ \E i \in 1..Len(dto.specializationIds) : dto.specializationIds[i] \notin Catalog
    \/ Len(Trim(dto.country)) = 0
    \/ Len(Trim(dto.state)) = 0
    \/ Len(Trim(dto.name)) < 2
    \/ Len(dto.specializationIds) < 1
    \/ Len(dto.specializationIds) > 3

\* execute, to its first await: the emailVerified guard.  The fields of the dto
\* do not change during a request; each is drawn where execute first reads it.
Start(r) ==
    /\ req[r].pc = "idle"
    /\ \E u \in Users, emailVerified \in BOOLEAN :
          req' = [req EXCEPT ![r] =
                    IF ~emailVerified
                        THEN Failed([@ EXCEPT !.userId = u, !.defect = TRUE],
                                    <<"UnauthorizedException",
                                      "Email verification required. Please verify your email before completing onboarding.">>)
                    ELSE [@ EXCEPT !.pc = "ensure", !.userId = u]]
    /\ UNCHANGED <<profileVars, clockVars, lawyerDbVars, httpVars, userVars, adminVars, dbClients, dbClientSpecs, dbUserOnb, clientVars, lawyerVars>>

\* step 1: await ensureClientDoesNotExist(userId)
EnsureClientDoesNotExist(r) ==
    /\ req[r].pc = "ensure"
    /\ req' = [req EXCEPT ![r] =
                 IF ensureClientDoesNotExist(@.userId) # <<>>
                     THEN Failed(@, ensureClientDoesNotExist(@.userId))
                 ELSE [@ EXCEPT !.pc = "validate"]]
    /\ UNCHANGED <<profileVars, clockVars, lawyerDbVars, httpVars, userVars, adminVars, dbClients, dbClientSpecs, dbUserOnb, clientVars, lawyerVars>>

\* steps 2 to 6: await validateSpecializations, build and complete the
\* aggregate, and call clientRepository.save, which opens its transaction
ValidateAndBuild(r) ==
    /\ req[r].pc = "validate"
    /\ \E ids \in SpecListInputs, n \in NameInputsUC, co \in CountryInputs, st \in StateInputs :
          LET dto == [userId |-> req[r].userId, name |-> n, country |-> co, state |-> st,
                      specializationIds |-> ids]
              b == BuildClient(dto)
              q == [req[r] EXCEPT !.defect = Defective(dto), !.idsRead = TRUE, !.ids = ids]
          IN req' = [req EXCEPT ![r] =
                        IF ~b.ok THEN Failed(q, b.err)
                        ELSE [q EXCEPT !.pc = "tx_client", !.client = b.ent,
                                       !.saveCalled = TRUE]]
    /\ UNCHANGED <<profileVars, clockVars, lawyerDbVars, httpVars, userVars, adminVars, dbClients, dbClientSpecs, dbUserOnb, clientVars, lawyerVars>>

\* save, step 2: tx.insert(clients).  A committed row with the same user_id
\* makes the insert fail and the transaction roll back.
TxInsertClient(r) ==
    /\ req[r].pc = "tx_client"
    /\ ~BlockedByInsert(r)
    /\ req' = [req EXCEPT ![r] =
                 IF UniqueViolation(@.userId)
                     THEN Failed(@, <<"DatabaseError", "unique_violation clients.user_id">>)
                 ELSE [@ EXCEPT !.pc = "tx_specs"]]
    /\ UNCHANGED <<profileVars, clockVars, lawyerDbVars, httpVars, userVars, adminVars, dbClients, dbClientSpecs, dbUserOnb, clientVars, lawyerVars>>

\* save, step 3: tx.insert(clientSpecializations), skipped for an empty list
TxInsertSpecializations(r) ==
    /\ req[r].pc = "tx_specs"
    /\ req' = [req EXCEPT ![r].pc = "tx_user"]
    /\ UNCHANGED <<profileVars, clockVars, lawyerDbVars, httpVars, userVars, adminVars, dbClients, dbClientSpecs, dbUserOnb, clientVars, lawyerVars>>

\* save, step 4: tx.update(user), when the aggregate is onboarded
TxUpdateUser(r) ==
    /\ req[r].pc = "tx_user"
    /\ req' = [req EXCEPT ![r].pc = "tx_commit"]
    /\ UNCHANGED <<profileVars, clockVars, lawyerDbVars, httpVars, userVars, adminVars, dbClients, dbClientSpecs, dbUserOnb, clientVars, lawyerVars>>

\* the rows the transaction of request r has written; the client id is the
\* fresh UUID of IdGenerator.generate, here the request's number
ClientRowOf(r) ==
    [id |-> r, userId |-> req[r].userId, country |-> req[r].client.location.country,
     state |-> req[r].client.location.state]

\* the values of the client_specializations insert with the mutation "only the
\* first specialization is inserted"
SpecRowsOf_FirstOnly(r) ==
    {[clientId |-> r, specializationId |-> req[r].client.specializationIds[1]]}

SpecRowsOf(r) ==
    {[clientId |-> r, specializationId |-> req[r].client.specializationIds[i]] :
        i \in 1..Len(req[r].client.specializationIds)}

\* the transaction commits: its writes become visible together, and execute
\* returns the result object
TxCommit(r) ==
    /\ req[r].pc = "tx_commit"
    /\ dbClients' = dbClients \cup {ClientRowOf(r)}
    /\ dbClientSpecs' = dbClientSpecs \cup SpecRowsOf(r)
    /\ dbUserOnb' = IF req[r].client.onboardingCompleted
                        THEN [dbUserOnb EXCEPT ![req[r].userId] = TRUE]
                    ELSE dbUserOnb
    /\ req' = [req EXCEPT ![r] =
                 [@ EXCEPT !.pc = "done", !.ok = TRUE, !.client = NoClient,
                           !.specializationCount = Len(req[r].client.specializationIds)]]
    /\ UNCHANGED <<profileVars, clockVars, lawyerDbVars, httpVars, userVars, adminVars, clientVars, lawyerVars>>

\* a statement of the transaction fails (connection lost, statement timeout):
\* db.transaction rolls back and rethrows
TxFail(r) ==
    /\ req[r].pc \in {"tx_client", "tx_specs", "tx_user", "tx_commit"}
    /\ req' = [req EXCEPT ![r] = Failed(@, <<"DatabaseError", "statement failed">>)]
    /\ UNCHANGED <<profileVars, clockVars, lawyerDbVars, httpVars, userVars, adminVars, dbClients, dbClientSpecs, dbUserOnb, clientVars, lawyerVars>>

OnboardingNext ==
    \E r \in Requests :
        \/ Start(r)
        \/ EnsureClientDoesNotExist(r)
        \/ ValidateAndBuild(r)
        \/ TxInsertClient(r)
        \/ TxInsertSpecializations(r)
        \/ TxUpdateUser(r)
        \/ TxCommit(r)
        \/ TxFail(r)

-----------------------------------------------------------------------------
(* User aggregate and Role: src/domain/user/entities/user.entity.ts,        *)
(* src/domain/user/value-objects/role.vo.ts.  email, emailVerified and the  *)
(* timestamps are left out: no method of the aggregate writes or reads them *)

\* type RoleType
Roles == {"admin", "lawyer", "client"}

\* ids of the rows of table user
AccountIds == {"u1", "u2", "u3"}

\* ValueObject.equals on two Role objects: their values have equal JSON
Role_equals(a, b) == a = b

\* values a caller may pass to the methods of User
UserNameInputs == { <<" ", "K", " ">>, <<"K", "o">> }
ImageInputs == { <<"i">> }
ReasonInputs == { <<>>, <<" ">>, <<" ", "x">> }
AdminIdInputs == { "u1" }

\* an optional Date is a day number, or NoDate when it is undefined; an optional
\* id is an account id, or NoId when it is undefined
NoDate == 0
NoId == "undefined"
ExpiresInputs == { 1 }

\* the users UserMapper.toDomain hands to the calls below: not banned, no ban
\* reason, no ban expiry
UnbannedUsers ==
    [id : {"u2"}, name : { <<"A", "l">> }, image : {Undefined}, role : Roles,
     banned : {FALSE}, banReason : {Undefined}, banExpires : {NoDate},
     onboardingCompleted : BOOLEAN, events : { <<>> }]

\* User.updateProfile
User_updateProfile(u, updates) ==
    IF updates.name # Undefined /\ Len(Trim(updates.name)) < MinNameLength
        THEN Threw("ValidationException", "Name must be at least 2 characters", u)
    ELSE Returned([u EXCEPT
            !.name = IF updates.name # Undefined THEN updates.name ELSE @,
            !.image = IF updates.image # Undefined THEN updates.image ELSE @])

\* User.changeRole with the mutation "the event carries the new role twice"
User_changeRole_EventNewRole(u, newRole, adminId) ==
    IF Role_equals(u.role, newRole)
        THEN Threw("ValidationException", "User already has this role", u)
    ELSE Returned([u EXCEPT
            !.role = newRole,
            !.events = Append(@, [type |-> "UserRoleChanged", userId |-> u.id,
                                  oldRole |-> newRole, newRole |-> newRole,
                                  changedBy |-> adminId])])

\* User.changeRole
User_changeRole(u, newRole, adminId) ==
    IF Role_equals(u.role, newRole)
        THEN Threw("ValidationException", "User already has this role", u)
    ELSE Returned([u EXCEPT
            !.role = newRole,
            !.events = Append(@, [type |-> "UserRoleChanged", userId |-> u.id,
                                  oldRole |-> u.role, newRole |-> newRole,
                                  changedBy |-> adminId])])

\* User.ban with the mutation "a second ban replaces the first"
User_ban_NoBannedGuard(u, reason, expiresAt, adminId) ==
    IF Len(reason) = 0 \/ Len(Trim(reason)) = 0
        THEN Threw("ValidationException", "Ban reason is required", u)
    ELSE Returned([u EXCEPT
            !.banned = TRUE, !.banReason = reason, !.banExpires = expiresAt,
            !.events = Append(@, [type |-> "UserBanned", userId |-> u.id, reason |-> reason,
                                  expiresAt |-> expiresAt, bannedBy |-> adminId])])

\* User.ban with the mutation "the reason is not checked"
User_ban_NoReasonGuard(u, reason, expiresAt, adminId) ==
    IF u.banned THEN Threw("ValidationException", "User is already banned", u)
    ELSE Returned([u EXCEPT
            !.banned = TRUE, !.banReason = reason, !.banExpires = expiresAt,
            !.events = Append(@, [type |-> "UserBanned", userId |-> u.id, reason |-> reason,
                                  expiresAt |-> expiresAt, bannedBy |-> adminId])])

\* User.ban
User_ban(u, reason, expiresAt, adminId) ==
    IF u.banned THEN Threw("ValidationException", "User is already banned", u)
    ELSE IF Len(reason) = 0 \/ Len(Trim(reason)) = 0
        THEN Threw("ValidationException", "Ban reason is required", u)
    ELSE Returned([u EXCEPT
            !.banned = TRUE, !.banReason = reason, !.banExpires = expiresAt,
            !.events = Append(@, [type |-> "UserBanned", userId |-> u.id, reason |-> reason,
                                  expiresAt |-> expiresAt, bannedBy |-> adminId])])

\* User.unban with the mutation "the expiry is kept"
User_unban_KeepsExpiry(u, adminId) ==
    IF ~u.banned THEN Threw("ValidationException", "User is not banned", u)
    ELSE Returned([u EXCEPT !.banned = FALSE, !.banReason = Undefined])

\* User.unban
User_unban(u, adminId) ==
    IF ~u.banned THEN Threw("ValidationException", "User is not banned", u)
    ELSE Returned([u EXCEPT !.banned = FALSE, !.banReason = Undefined,
                            !.banExpires = NoDate])

\* User.isAdmin
User_isAdmin(u) == u.role = "admin"

\* User.isBanExpired: new Date() > this._banExpires, t the clock's value
User_isBanExpired(u, t) ==
    IF ~u.banned \/ u.banExpires = NoDate THEN FALSE
    ELSE t > u.banExpires

\* User.completeOnboarding
User_completeOnboarding(u) == Returned([u EXCEPT !.onboardingCompleted = TRUE])

NoUserCall == [op |-> "none", arg |-> <<>>, ok |-> TRUE, err |-> "none"]

UserCallOf(op, arg, r, pre) ==
    [op |-> op, arg |-> arg, ok |-> r.ok, err |-> r.err, pre |-> pre]

UserUpdateProfile ==
    /\ \E n \in UserNameInputs \cup {Undefined}, im \in ImageInputs \cup {Undefined} :
          LET r == User_updateProfile(user, [name |-> n, image |-> im])
          IN /\ user' = r.ent
             /\ ucall' = UserCallOf("updateProfile", <<n, im>>, r, user)
    /\ UNCHANGED <<profileVars, clockVars, lawyerDbVars, httpVars, clientVars, lawyerVars, storeVars, adminVars>>

UserChangeRole ==
    /\ Len(user.events) < MaxUserEvents
    /\ \E newRole \in Roles, adminId \in AdminIdInputs :
          LET r == User_changeRole(user, newRole, adminId)
          IN /\ user' = r.ent
             /\ ucall' = UserCallOf("changeRole", <<newRole, adminId>>, r, user)
    /\ UNCHANGED <<profileVars, clockVars, lawyerDbVars, httpVars, clientVars, lawyerVars, storeVars, adminVars>>

UserBan ==
    /\ Len(user.events) < MaxUserEvents
    /\ \E reason \in ReasonInputs, expiresAt \in ExpiresInputs \cup {NoDate},
          adminId \in AdminIdInputs \cup {NoId} :
          LET r == User_ban(user, reason, expiresAt, adminId)
          IN /\ user' = r.ent
             /\ ucall' = UserCallOf("ban", <<reason, expiresAt, adminId>>, r, user)
    /\ UNCHANGED <<profileVars, clockVars, lawyerDbVars, httpVars, clientVars, lawyerVars, storeVars, adminVars>>

UserUnban ==
    /\ \E adminId \in AdminIdInputs \cup {NoId} :
          LET r == User_unban(user, adminId)
          IN /\ user' = r.ent
             /\ ucall' = UserCallOf("unban", <<adminId>>, r, user)
    /\ UNCHANGED <<profileVars, clockVars, lawyerDbVars, httpVars, clientVars, lawyerVars, storeVars, adminVars>>

UserCompleteOnboarding ==
    /\ LET r == User_completeOnboarding(user)
       IN /\ user' = r.ent
          /\ ucall' = UserCallOf("completeOnboarding", <<>>, r, user)
    /\ UNCHANGED <<profileVars, clockVars, lawyerDbVars, httpVars, clientVars, lawyerVars, storeVars, adminVars>>

\* Time passes.  No code runs when it does: nothing in the source is scheduled
\* on a ban's expiry.
Tick ==
    /\ now < MaxNow
    /\ now' = now + 1
    /\ UNCHANGED <<profileVars, lawyerDbVars, httpVars, clientVars, lawyerVars, storeVars, userVars, adminVars>>

UserNext ==
    \/ UserUpdateProfile
    \/ UserChangeRole
    \/ UserBan
    \/ UserUnban
    \/ UserCompleteOnboarding

-----------------------------------------------------------------------------
(* UserDomainService, the admin use cases ListUsers, BanUser, UnbanUser and *)
(* ChangeUserRole, AdminController, and DrizzleUserRepository over table    *)
(* user                                                                     *)

\* an id that no row of table user has
MissingAccountId == "u9"

AdminRequests == 1..NumAdminReqs
AdminKinds == {"ListUsers", "BanUser", "UnbanUser", "ChangeUserRole"}

\* values of dto.newRole: the roles, and a string that is no role
RoleInputs == Roles \cup {"owner"}

\* no User: findById returned null, or nothing was read yet
NoUser ==
    [id |-> NoId, name |-> <<>>, image |-> Undefined, role |-> "client",
     banned |-> FALSE, banReason |-> Undefined, banExpires |-> NoDate,
     onboardingCompleted |-> FALSE, events |-> <<>>]

\* UserMapper.toDomain: the row's columns, Role.create(raw.role), no event
UserMapper_toDomain(raw) ==
    [id |-> raw.id, name |-> raw.name, image |-> raw.image, role |-> raw.role,
     banned |-> raw.banned, banReason |-> raw.banReason, banExpires |-> raw.banExpires,
     onboardingCompleted |-> raw.onboardingCompleted, events |-> <<>>]

\* DrizzleUserRepository.findById
findById(id) == IF id \in DOMAIN dbUsers THEN UserMapper_toDomain(dbUsers[id]) ELSE NoUser

\* DrizzleUserRepository.update: the columns its set() writes to the row with
\* the entity's id
UserRowOf(u) ==
    [id |-> u.id, name |-> u.name, image |-> u.image, role |-> u.role,
     banned |-> u.banned, banReason |-> u.banReason, banExpires |-> u.banExpires,
     onboardingCompleted |-> u.onboardingCompleted]

\* Role.create: "" or the message of the ValidationException
Role_create_Error(role) ==
    IF role \in {"admin", "lawyer", "client"} THEN ""
    ELSE "Invalid role. Must be one of: admin, lawyer, client"

\* ensureCanPerformAdminAction with the mutation "a banned admin may act"
ensureCanPerformAdminAction_NoBannedCheck(adminUser) ==
    IF ~User_isAdmin(adminUser)
        THEN <<"ForbiddenException", "Only administrators can perform this action">>
    ELSE <<>>

\* ensureCanPerformAdminAction with the mutation "a ban that has expired does
\* not count"
ensureCanPerformAdminAction_ExpiredBanIgnored(adminUser) ==
    IF ~User_isAdmin(adminUser)
        THEN <<"ForbiddenException", "Only administrators can perform this action">>
    ELSE IF adminUser.banned /\ ~User_isBanExpired(adminUser, now)
        THEN <<"ForbiddenException", "Banned users cannot perform admin actions">>
    ELSE <<>>

\* UserDomainService.ensureCanPerformAdminAction: <<>> when it returns
ensureCanPerformAdminAction(adminUser) ==
    IF ~User_isAdmin(adminUser)
        THEN <<"ForbiddenException", "Only administrators can perform this action">>
    ELSE IF adminUser.banned
        THEN <<"ForbiddenException", "Banned users cannot perform admin actions">>
    ELSE <<>>

\* canChangeRole with the mutation "an admin may change their own role"
canChangeRole_NoSelfCheck(targetUser, performingUser) == User_isAdmin(performingUser)

\* UserDomainService.canChangeRole
canChangeRole(targetUser, performingUser) ==
    IF ~User_isAdmin(performingUser) THEN FALSE
    ELSE IF targetUser.id = performingUser.id THEN FALSE
    ELSE TRUE

\* canBanUser with the mutation "an admin may ban another admin"
canBanUser_NoAdminTargetCheck(targetUser, performingUser) ==
    IF ~User_isAdmin(performingUser) THEN FALSE
    ELSE IF targetUser.id = performingUser.id THEN FALSE
    ELSE TRUE

\* UserDomainService.canBanUser
canBanUser(targetUser, performingUser) ==
    IF ~User_isAdmin(performingUser) THEN FALSE
    ELSE IF targetUser.id = performingUser.id THEN FALSE
    ELSE IF User_isAdmin(targetUser) THEN FALSE
    ELSE TRUE

\* BanUserUseCase.execute from the target read by findById to the update call
BanUser_onTarget(targetUser, adminUser, dto) ==
    IF targetUser = NoUser THEN Threw("UserNotFoundError", "User not found", targetUser)
    ELSE IF ~canBanUser(targetUser, adminUser)
        THEN Threw("ForbiddenException", "You cannot ban this user", targetUser)
    ELSE User_ban(targetUser, dto.reason, dto.expiresAt, adminUser.id)

\* UnbanUserUseCase.execute from the target read by findById to the update call
UnbanUser_onTarget(targetUser, adminUser) ==
    IF targetUser = NoUser THEN Threw("UserNotFoundError", "User not found", targetUser)
    ELSE User_unban(targetUser, adminUser.id)

\* ChangeUserRoleUseCase.execute from the target read by findById to the
\* update call
ChangeUserRole_onTarget(targetUser, adminUser, dto) ==
    IF targetUser = NoUser THEN Threw("UserNotFoundError", "User not found", targetUser)
    ELSE IF ~canChangeRole(targetUser, adminUser)
        THEN Threw("ForbiddenException", "You cannot change this user's role", targetUser)
    ELSE IF Role_create_Error(dto.newRole) # ""
        THEN Threw("ValidationException", Role_create_Error(dto.newRole), targetUser)
    ELSE User_changeRole(targetUser, dto.newRole, adminUser.id)

IdleAdminReq ==
    [pc |-> "idle", kind |-> "none", actorId |-> NoId, targetId |-> NoId,
     actor |-> NoUser, target |-> NoUser, entity |-> NoUser, newRole |-> "none",
     readTarget |-> FALSE, updated |-> FALSE, ok |-> FALSE, err |-> <<>>]

AdminFailed(q, err) == [q EXCEPT !.pc = "done", !.ok = FALSE, !.err = err, !.entity = NoUser]

\* AdminController: the acting user is loaded from the store with
\* GetUserProfileUseCase before the use case is called with it
AdminLoadActor(r) ==
    /\ areq[r].pc = "idle"
    /\ \E kind \in AdminKinds, actorId \in AccountIds,
          targetId \in AccountIds \cup {MissingAccountId} :
          areq' = [areq EXCEPT ![r] =
                     [@ EXCEPT !.pc = "authorize", !.kind = kind, !.actorId = actorId,
                               !.targetId = IF kind = "ListUsers" THEN NoId ELSE targetId,
                               !.actor = findById(actorId)]]
    /\ UNCHANGED <<profileVars, clockVars, lawyerDbVars, httpVars, clientVars, lawyerVars, storeVars, userVars, dbUsers>>

\* execute, to its first await: await ensureCanPerformAdminAction(adminUser)
AdminAuthorize(r) ==
    /\ areq[r].pc = "authorize"
    /\ areq' = [areq EXCEPT ![r] =
                  IF ensureCanPerformAdminAction(@.actor) # <<>>
                      THEN AdminFailed(@, ensureCanPerformAdminAction(@.actor))
                  ELSE [@ EXCEPT !.pc = IF areq[r].kind = "ListUsers" THEN "list" ELSE "find"]]
    /\ UNCHANGED <<profileVars, clockVars, lawyerDbVars, httpVars, clientVars, lawyerVars, storeVars, userVars, dbUsers>>

\* ListUsersUseCase.execute: userRepository.list(filter), a read
AdminList(r) ==
    /\ areq[r].pc = "list"
    /\ areq' = [areq EXCEPT ![r] = [@ EXCEPT !.pc = "done", !.ok = TRUE]]
    /\ UNCHANGED <<profileVars, clockVars, lawyerDbVars, httpVars, clientVars, lawyerVars, storeVars, userVars, dbUsers>>

\* execute, from await findById(dto.userId) to the call of userRepository.update
AdminFindTarget(r) ==
    /\ areq[r].pc = "find"
    /\ \E reason \in ReasonInputs, expiresAt \in ExpiresInputs \cup {NoDate},
          newRole \in RoleInputs :
          LET q == areq[r]
              t == findById(q.targetId)
              res == CASE q.kind = "BanUser" ->
                            BanUser_onTarget(t, q.actor,
                                [userId |-> q.targetId, reason |-> reason,
                                 expiresAt |-> expiresAt])
                       [] q.kind = "UnbanUser" -> UnbanUser_onTarget(t, q.actor)
                       [] q.kind = "ChangeUserRole" ->
                            ChangeUserRole_onTarget(t, q.actor,
                                [userId |-> q.targetId, newRole |-> newRole])
              seen == [q EXCEPT !.readTarget = TRUE, !.target = t,
                                !.newRole = IF q.kind = "ChangeUserRole" THEN newRole
                                            ELSE "none"]
          IN areq' = [areq EXCEPT ![r] =
                        IF ~res.ok THEN AdminFailed(seen, res.err)
                        ELSE [seen EXCEPT !.pc = "update", !.entity = res.ent]]
    /\ UNCHANGED <<profileVars, clockVars, lawyerDbVars, httpVars, clientVars, lawyerVars, storeVars, userVars, dbUsers>>

\* DrizzleUserRepository.update, and execute returns the entity
AdminUpdate(r) ==
    /\ areq[r].pc = "update"
    /\ dbUsers' = [dbUsers EXCEPT ![areq[r].entity.id] = UserRowOf(areq[r].entity)]
    /\ areq' = [areq EXCEPT ![r] =
                  [@ EXCEPT !.pc = "done", !.ok = TRUE, !.updated = TRUE, !.entity = NoUser]]
    /\ UNCHANGED <<profileVars, clockVars, lawyerDbVars, httpVars, clientVars, lawyerVars, storeVars, userVars>>

AdminNext ==
    \E r \in AdminRequests :
        \/ AdminLoadActor(r)
        \/ AdminAuthorize(r)
        \/ AdminList(r)
        \/ AdminFindTarget(r)
        \/ AdminUpdate(r)

\* the same requests one at a time: a request starts or moves only while no
\* other request is between its start and its end
AdminSeqNext ==
    \E r \in AdminRequests :
        /\ \A o \in AdminRequests \ {r} : areq[o].pc \in {"idle", "done"}
        /\ \/ AdminLoadActor(r)
           \/ AdminAuthorize(r)
           \/ AdminList(r)
           \/ AdminFindTarget(r)
           \/ AdminUpdate(r)

\* a row of table user
UserRow(id, role, banned) ==
    [id |-> id, name |-> <<"A", "l">>, image |-> Undefined, role |-> role,
     banned |-> banned, banReason |-> IF banned THEN <<" ", "x">> ELSE Undefined,
     banExpires |-> NoDate, onboardingCompleted |-> FALSE]

\* the stores the requests start from: u1 an admin, u2 an admin or a lawyer,
\* u3 a client; u1 and u3 banned or not
InitialUserStores ==
    {[id \in AccountIds |->
        CASE id = "u1" -> UserRow(id, "admin", b1)
          [] id = "u2" -> UserRow(id, r2, FALSE)
          [] id = "u3" -> UserRow(id, "client", b3)] :
     b1 \in BOOLEAN, r2 \in {"admin", "lawyer"}, b3 \in BOOLEAN}

-----------------------------------------------------------------------------
(* Error classes and the global error handler (error-handler.middleware.ts) *)

\* An error is the pair <<class, message>> (validateSpecializations adds the ids
\* it found invalid).  A class is known by its name; "Error" is the built-in
\* root.  A driver error such as a unique violation is not a domain class.

\* class ForbiddenException extends DomainException
ForbiddenException_extends == "DomainException"

\* class InvalidOnboardingStepError extends DomainException
InvalidOnboardingStepError_extends == "DomainException"

\* class IncompleteOnboardingError extends DomainException
IncompleteOnboardingError_extends == "DomainException"

\* class ClientAlreadyExistsError extends ConflictException
ClientAlreadyExistsError_extends == "ConflictException"

\* class UserNotFoundError extends NotFoundException
UserNotFoundError_extends == "NotFoundException"

\* The shared classes of domain/shared/errors: each of the five the handler
\* tests first extends DomainException, as ForbiddenException does, and
\* DomainException extends the built-in Error.
SharedSuperclass(cls) ==
    IF cls \in {"ValidationException", "NotFoundException", "UnauthorizedException",
                "ConflictException"}
    THEN "DomainException"
    ELSE "Error"

\* the class a class extends
Superclass(cls) ==
    CASE cls = "ForbiddenException" -> ForbiddenException_extends
      [] cls = "InvalidOnboardingStepError" -> InvalidOnboardingStepError_extends
      [] cls = "IncompleteOnboardingError" -> IncompleteOnboardingError_extends
      [] cls = "ClientAlreadyExistsError" -> ClientAlreadyExistsError_extends
      [] cls = "UserNotFoundError" -> UserNotFoundError_extends
      [] OTHER -> SharedSuperclass(cls)

\* error instanceof C
RECURSIVE InstanceOf(_, _)
InstanceOf(cls, C) ==
    \/ cls = C
    \/ cls # "Error" /\ InstanceOf(Superclass(cls), C)

NoResponse == [handled |-> FALSE, error |-> <<"none", "none">>, status |-> "none"]

\* errorHandler: the first class of the chain the error is an instance of
\* decides the status (named as in HttpStatus)
errorHandler(error) ==
    LET cls == error[1]
    IN [handled |-> TRUE, error |-> error,
        status |-> IF InstanceOf(cls, "ValidationException") THEN "BAD_REQUEST"
                   ELSE IF InstanceOf(cls, "NotFoundException") THEN "NOT_FOUND"
                   ELSE IF InstanceOf(cls, "UnauthorizedException") THEN "UNAUTHORIZED"
                   ELSE IF InstanceOf(cls, "ForbiddenException") THEN "FORBIDDEN"
                   ELSE IF InstanceOf(cls, "ConflictException") THEN "CONFLICT"
                   ELSE IF InstanceOf(cls, "DomainException") THEN "UNPROCESSABLE_ENTITY"
                   ELSE "INTERNAL_SERVER_ERROR"]

\* the errors thrown by the last call on each aggregate and by the finished
\* onboarding and admin requests
ThrownErrors ==
    (IF ccall.ok THEN {} ELSE {ccall.err})
    \cup (IF lcall.ok THEN {} ELSE {lcall.err})
    \cup (IF ucall.ok THEN {} ELSE {ucall.err})
    \cup {req[r].err : r \in {r \in Requests : req[r].pc = "done" /\ ~req[r].ok}}
    \cup {areq[r].err : r \in {r \in AdminRequests : areq[r].pc = "done" /\ ~areq[r].ok}}

\* An error thrown by a use case or an aggregate reaches the handler.
ErrorHandler ==
    /\ \E error \in ThrownErrors : resp' = errorHandler(error)
    /\ UNCHANGED <<profileVars, clockVars, lawyerDbVars, hreq, clientVars, lawyerVars, storeVars, userVars, adminVars>>

UserErrorsNext ==
    \/ UserNext
    \/ ErrorHandler

LawyerErrorsNext ==
    \/ LawyerNext
    \/ ErrorHandler

ClientErrorsNext ==
    \/ ClientNext
    \/ ErrorHandler

OnboardingErrorsNext ==
    \/ OnboardingNext
    \/ ErrorHandler

-----------------------------------------------------------------------------
(* POST /onboarding/complete: requireAuth, validateCompleteOnboarding and     *)
(* AuthController.completeOnboarding                                          *)

\* auth.api.getSession: null, or the session of a user
NoSession == [valid |-> FALSE, userId |-> <<>>, name |-> <<>>, emailVerified |-> FALSE]

Sessions ==
    {[valid |-> TRUE, userId |-> u, name |-> <<"J", "o">>, emailVerified |-> v] :
        u \in Users, v \in BOOLEAN}

\* request bodies
Bodies ==
    {[country |-> co, state |-> st, specializationIds |-> ids] :
        co \in CountryInputs, st \in StateInputs, ids \in SpecListInputs}

IdleHttpReq ==
    [pc |-> "idle", session |-> NoSession,
     body |-> [country |-> <<>>, state |-> <<>>, specializationIds |-> <<>>],
     hadProfile |-> FALSE, status |-> "none", message |-> "none"]

\* completeOnboardingSchema.parse: country and state of at least 2 characters,
\* 1 to 3 specialization ids (every id drawn here has the form of a UUID)
SchemaAccepts(body) ==
    /\ Len(body.country) >= 2
    /\ Len(body.state) >= 2
    /\ Len(body.specializationIds) >= 1
    /\ Len(body.specializationIds) <= 3

\* the object the controller passes to execute: userId, name (and email) from
\* the session, the other fields from the body
ControllerDto(session, body) ==
    [userId |-> session.userId, name |-> session.name, country |-> body.country,
     state |-> body.state, specializationIds |-> body.specializationIds]

\* const { ..., emailVerified } = dto; !emailVerified: a property the object
\* does not have is undefined, which is falsy
EmailVerifiedOf(dto) == IF "emailVerified" \in DOMAIN dto THEN dto.emailVerified ELSE FALSE

\* CompleteOnboardingUseCase.execute run without interleaving: the exception
\* thrown, or the aggregate saved
Execute(dto) ==
    IF ~EmailVerifiedOf(dto)
        THEN [ok |-> FALSE,
              err |-> <<"UnauthorizedException",
                        "Email verification required. Please verify your email before completing onboarding.">>,
              ent |-> NoClient]
    ELSE IF ensureClientDoesNotExist(dto.userId) # <<>>
        THEN [ok |-> FALSE, err |-> ensureClientDoesNotExist(dto.userId), ent |-> NoClient]
    ELSE BuildClient(dto)

\* a request arrives
HttpReceive ==
    /\ hreq.pc = "idle"
    /\ \E session \in Sessions \cup {NoSession}, body \in Bodies :
          hreq' = [hreq EXCEPT !.pc = "requireAuth", !.session = session, !.body = body,
                               !.hadProfile = findByUserId(session.userId)]
    /\ UNCHANGED <<profileVars, clockVars, lawyerDbVars, resp, clientVars, lawyerVars, storeVars, userVars, adminVars>>

\* requireAuth: 401 without a session
RequireAuth ==
    /\ hreq.pc = "requireAuth"
    /\ hreq' = IF ~hreq.session.valid
                   THEN [hreq EXCEPT !.pc = "done", !.status = "UNAUTHORIZED",
                                     !.message = "Unauthorized"]
               ELSE [hreq EXCEPT !.pc = "validate"]
    /\ UNCHANGED <<profileVars, clockVars, lawyerDbVars, resp, clientVars, lawyerVars, storeVars, userVars, adminVars>>

\* validateCompleteOnboarding: 400 when the schema rejects the body
ValidateCompleteOnboarding ==
    /\ hreq.pc = "validate"
    /\ hreq' = IF ~SchemaAccepts(hreq.body)
                   THEN [hreq EXCEPT !.pc = "done", !.status = "BAD_REQUEST",
                                     !.message = "Validation failed"]
               ELSE [hreq EXCEPT !.pc = "controller"]
    /\ UNCHANGED <<profileVars, clockVars, lawyerDbVars, resp, clientVars, lawyerVars, storeVars, userVars, adminVars>>

\* AuthController.completeOnboarding: 401 without a session, 201 when execute
\* returns, and its catch answers 400 for whatever execute throws
CompleteOnboardingController ==
    /\ hreq.pc = "controller"
    /\ LET out == Execute(ControllerDto(hreq.session, hreq.body))
       IN IF ~hreq.session.valid
              THEN /\ hreq' = [hreq EXCEPT !.pc = "done", !.status = "UNAUTHORIZED",
                                           !.message = "Unauthorized"]
                   /\ UNCHANGED storeVars
          ELSE IF ~out.ok
              THEN /\ hreq' = [hreq EXCEPT !.pc = "done", !.status = "BAD_REQUEST",
                                           !.message = out.err[2]]
                   /\ UNCHANGED storeVars
          ELSE /\ hreq' = [hreq EXCEPT !.pc = "done", !.status = "CREATED",
                                       !.message = "Onboarding completed successfully"]
               /\ dbClients' = dbClients \cup
                      {[id |-> 0, userId |-> out.ent.userId,
                        country |-> out.ent.location.country,
                        state |-> out.ent.location.state]}
               /\ dbClientSpecs' = dbClientSpecs \cup
                      {[clientId |-> 0, specializationId |-> out.ent.specializationIds[i]] :
                          i \in 1..Len(out.ent.specializationIds)}
               /\ dbUserOnb' = [dbUserOnb EXCEPT ![out.ent.userId] = TRUE]
               /\ UNCHANGED req
    /\ UNCHANGED <<profileVars, clockVars, lawyerDbVars, resp, clientVars, lawyerVars, userVars, adminVars>>

\* the response is sent; the next request may arrive
HttpRespond ==
    /\ hreq.pc = "done"
    /\ hreq' = IdleHttpReq
    /\ UNCHANGED <<profileVars, clockVars, lawyerDbVars, resp, clientVars, lawyerVars, storeVars, userVars, adminVars>>

OnboardingHttpNext ==
    \/ HttpReceive
    \/ RequireAuth
    \/ ValidateCompleteOnboarding
    \/ CompleteOnboardingController
    \/ HttpRespond

-----------------------------------------------------------------------------
(* DrizzleLawyerRepository: saveSpecializations, saveLanguages and findById   *)
(* over tables lawyer_specializations and lawyer_languages, for one lawyer.   *)
(* Each awaited this.db statement commits on its own.                         *)

\* values a caller passes to saveSpecializations
LawyerSpecRowInputs ==
    { {}, {[specializationId |-> 1, type |-> "primary"]},
      {[specializationId |-> 2, type |-> "primary"],
       [specializationId |-> 3, type |-> "secondary"]} }

\* values a caller passes to saveLanguages
LawyerLangInputs == { {}, {1}, {1, 2} }

IdleLawyerSave == [pc |-> "idle", kind |-> "none", values |-> {}, before |-> {}]

NoLawyerRead == [taken |-> FALSE, specializations |-> {}, languages |-> {},
                 replacing |-> {}]

\* the tables whose rows a call in flight has deleted and not yet inserted
\* again, among those that held rows before it
Replacing ==
    IF lsave.pc = "insert" /\ lsave.before # {} /\ lsave.values # {} THEN {lsave.kind}
    ELSE {}

\* saveSpecializations / saveLanguages is called; an empty list returns at once
LawyerSaveCall ==
    /\ lsave.pc = "idle"
    /\ \/ \E specializations \in LawyerSpecRowInputs :
             lsave' = IF specializations = {} THEN IdleLawyerSave
                      ELSE [pc |-> "delete", kind |-> "specializations",
                            values |-> specializations, before |-> dbLawyerSpecs]
       \/ \E languageIds \in LawyerLangInputs :
             lsave' = IF languageIds = {} THEN IdleLawyerSave
                      ELSE [pc |-> "delete", kind |-> "languages",
                            values |-> languageIds, before |-> dbLawyerLangs]
    /\ UNCHANGED <<dbLawyerSpecs, dbLawyerLangs, lread>>
    /\ UNCHANGED <<profileVars, clockVars, httpVars, clientVars, lawyerVars, storeVars, userVars, adminVars>>

\* step 1: await this.db.delete(...).where(lawyerId = ...)
LawyerSaveDelete ==
    /\ lsave.pc = "delete"
    /\ IF lsave.kind = "specializations"
           THEN dbLawyerSpecs' = {} /\ UNCHANGED dbLawyerLangs
       ELSE dbLawyerLangs' = {} /\ UNCHANGED dbLawyerSpecs
    /\ lsave' = [lsave EXCEPT !.pc = "insert"]
    /\ UNCHANGED lread
    /\ UNCHANGED <<profileVars, clockVars, httpVars, clientVars, lawyerVars, storeVars, userVars, adminVars>>

\* step 2: await this.db.insert(...).values(...)
LawyerSaveInsert ==
    /\ lsave.pc = "insert"
    /\ IF lsave.kind = "specializations"
           THEN dbLawyerSpecs' = dbLawyerSpecs \cup lsave.values /\ UNCHANGED dbLawyerLangs
       ELSE dbLawyerLangs' = dbLawyerLangs \cup lsave.values /\ UNCHANGED dbLawyerSpecs
    /\ lsave' = IdleLawyerSave
    /\ UNCHANGED lread
    /\ UNCHANGED <<profileVars, clockVars, httpVars, clientVars, lawyerVars, storeVars, userVars, adminVars>>

\* findById of the lawyer by another request: the rows committed at that moment
LawyerFindById ==
    /\ lread' = [taken |-> TRUE, specializations |-> dbLawyerSpecs,
                 languages |-> dbLawyerLangs, replacing |-> Replacing]
    /\ UNCHANGED <<dbLawyerSpecs, dbLawyerLangs, lsave>>
    /\ UNCHANGED <<profileVars, clockVars, httpVars, clientVars, lawyerVars, storeVars, userVars, adminVars>>

LawyerDbNext ==
    \/ LawyerSaveCall
    \/ LawyerSaveDelete
    \/ LawyerSaveInsert
    \/ LawyerFindById

\* a lawyer with one specialization and one language
LawyerDbInit ==
    /\ dbLawyerSpecs = {[specializationId |-> 1, type |-> "primary"]}
    /\ dbLawyerLangs = {1}
    /\ lsave = IdleLawyerSave
    /\ lread = NoLawyerRead

-----------------------------------------------------------------------------
(* UpdateUserProfileUseCase next to CompleteOnboarding.  The requests of      *)
(* CompleteOnboarding keep column user.onboarding_completed in dbUserOnb; the *)
(* row that findById reads here joins it to the other columns in dbUsers.     *)

\* an id that no row of table user has
MissingUserId == <<"u", "9">>

\* the same account under the two spellings of its id
AccountOf(userId) ==
    CASE userId = <<"u", "1">> -> "u1"
      [] userId = <<"u", "2">> -> "u2"
      [] OTHER -> MissingAccountId

\* DrizzleUserRepository.findById over the joined row
findUserById(userId) ==
    IF userId \notin Users THEN NoUser
    ELSE UserMapper_toDomain([dbUsers[AccountOf(userId)] EXCEPT
                                 !.onboardingCompleted = dbUserOnb[userId]])

IdleProfileReq ==
    [pc |-> "idle", userId |-> <<>>, entity |-> NoUser, ok |-> FALSE, err |-> <<>>]

\* execute, from await findById(userId) to the call of userRepository.update
ProfileFind ==
    /\ preq.pc = "idle"
    /\ \E userId \in Users \cup {MissingUserId},
          n \in UserNameInputs \cup {Undefined}, im \in ImageInputs \cup {Undefined} :
          LET u == findUserById(userId)
              r == User_updateProfile(u, [name |-> n, image |-> im])
          IN preq' = IF u = NoUser
                         THEN [IdleProfileReq EXCEPT !.pc = "done", !.userId = userId,
                                   !.err = <<"UserNotFoundError", "User not found">>]
                     ELSE IF ~r.ok
                         THEN [IdleProfileReq EXCEPT !.pc = "done", !.userId = userId,
                                   !.err = r.err]
                     ELSE [IdleProfileReq EXCEPT !.pc = "update", !.userId = userId,
                               !.entity = r.ent]
    /\ UNCHANGED <<clockVars, lawyerDbVars, httpVars, clientVars, lawyerVars, storeVars,
                   userVars, adminVars>>

\* DrizzleUserRepository.update: every mutable column is set from the entity.
\* The statement waits while a transaction that has updated the same row is
\* not yet committed.
ProfileUpdate ==
    /\ preq.pc = "update"
    /\ ~\E o \in Requests : req[o].pc = "tx_commit" /\ req[o].userId = preq.userId
    /\ dbUsers' = [dbUsers EXCEPT ![AccountOf(preq.userId)] = UserRowOf(preq.entity)]
    /\ dbUserOnb' = [dbUserOnb EXCEPT ![preq.userId] = preq.entity.onboardingCompleted]
    /\ preq' = [preq EXCEPT !.pc = "done", !.ok = TRUE]
    /\ UNCHANGED <<dbClients, dbClientSpecs, req, areq>>
    /\ UNCHANGED <<clockVars, lawyerDbVars, httpVars, clientVars, lawyerVars, userVars>>

OnboardingProfileNext ==
    \/ OnboardingNext
    \/ ProfileFind
    \/ ProfileUpdate

-----------------------------------------------------------------------------
(* DrizzleClientRepository.findByUserId and ClientMapper.toDomain: a saved   *)
(* client loaded again                                                        *)

\* the rows of a query in the order the database returns them: no ORDER BY is
\* given, ascending ids are taken here
RECURSIVE Ascending(_)
Ascending(S) ==
    IF S = {} THEN <<>>
    ELSE LET m == CHOOSE x \in S : \A y \in S : x <= y
         IN <<m>> \o Ascending(S \ {m})

\* ClientMapper.toDomain: raw.onboardingCompleted ?? false, for a row that
\* carries only the columns of table clients
ClientMapper_toDomain(raw) ==
    [exists |-> TRUE, userId |-> raw.userId, name |-> raw.name,
     phoneNumber |-> Undefined,
     location |-> Location_create([country |-> raw.country, state |-> raw.state]).ent,
     company |-> Undefined,
     specializationIds |-> raw.specializationIds,
     onboardingCompleted |-> IF "onboardingCompleted" \in DOMAIN raw
                                 THEN raw.onboardingCompleted ELSE FALSE]

\* DrizzleClientRepository.findByUserId for a user that has a clients row: the
\* row, the user's name and the ids of its client_specializations rows
Client_findByUserId(userId) ==
    LET result == CHOOSE row \in dbClients : row.userId = userId
        specializationIds ==
            Ascending({cs.specializationId :
                          cs \in {cs \in dbClientSpecs : cs.clientId = result.id}})
    IN ClientMapper_toDomain(
           [id |-> result.id, userId |-> result.userId, country |-> result.country,
            state |-> result.state, name |-> dbUsers[AccountOf(userId)].name,
            specializationIds |-> specializationIds])

\* a later request loads the profile
ClientFindByUserId ==
    /\ \E userId \in Users :
          /\ findByUserId(userId)
          /\ client' = Client_findByUserId(userId)
          /\ ccall' = CallOf("findByUserId", <<userId>>, Returned(Client_findByUserId(userId)),
                             client)
    /\ UNCHANGED <<profileVars, clockVars, lawyerDbVars, httpVars, userVars, adminVars,
                   lawyerVars, storeVars>>

OnboardingReloadNext ==
    \/ OnboardingNext
    \/ ClientFindByUserId
    \/ ClientCompleteOnboarding

-----------------------------------------------------------------------------
(* Initial state and specifications *)

StoreInit ==
    /\ dbClients = {}
    /\ dbClientSpecs = {}
    /\ dbUserOnb = [u \in Users |-> FALSE]
    /\ req = [r \in Requests |-> IdleReq]

HttpInit ==
    /\ resp = NoResponse
    /\ hreq = IdleHttpReq
    /\ LawyerDbInit
    /\ now = 0
    /\ preq = IdleProfileReq

\* the account the calls of SpecUser start from when another subsystem runs
DefaultUser ==
    [id |-> "u2", name |-> <<"A", "l">>, image |-> Undefined, role |-> "client",
     banned |-> FALSE, banReason |-> Undefined, banExpires |-> NoDate,
     onboardingCompleted |-> FALSE, events |-> <<>>]

AdminInit ==
    /\ dbUsers = [id \in AccountIds |-> UserRow(id, IF id = "u1" THEN "admin" ELSE "client", FALSE)]
    /\ areq = [r \in AdminRequests |-> IdleAdminReq]

UserInit ==
    /\ user = DefaultUser
    /\ ucall = NoUserCall
    /\ AdminInit

Init ==
    /\ client = NoClient
    /\ ccall = NoCall
    /\ lawyer = NoLawyer
    /\ lcall = NoLawyerCall
    /\ lscript = ScriptStart
    /\ StoreInit
    /\ HttpInit
    /\ UserInit

\* a User reconstituted from a row that is not banned
InitUser ==
    /\ client = NoClient
    /\ ccall = NoCall
    /\ lawyer = NoLawyer
    /\ lcall = NoLawyerCall
    /\ lscript = ScriptStart
    /\ StoreInit
    /\ HttpInit
    /\ user \in UnbannedUsers
    /\ ucall = NoUserCall
    /\ AdminInit

\* a lawyer loaded from the store instead of built by create
InitLawyerAny ==
    /\ client = NoClient
    /\ ccall = NoCall
    /\ lawyer \in ReconstitutedLawyers \cup {NoLawyer}
    /\ lcall = NoLawyerCall
    /\ lscript = IF lawyer.exists THEN [pos |-> -1, ok |-> TRUE] ELSE ScriptStart
    /\ StoreInit
    /\ HttpInit
    /\ UserInit

\* a Client built by create, then any sequence of its methods
SpecClient == Init /\ [][ClientNext]_vars

\* concurrent CompleteOnboarding requests over one store
SpecOnboarding == Init /\ [][OnboardingNext]_vars

\* concurrent admin requests over one user table
InitAdmin ==
    /\ client = NoClient
    /\ ccall = NoCall
    /\ lawyer = NoLawyer
    /\ lcall = NoLawyerCall
    /\ lscript = ScriptStart
    /\ StoreInit
    /\ HttpInit
    /\ user = DefaultUser
    /\ ucall = NoUserCall
    /\ dbUsers \in InitialUserStores
    /\ areq = [r \in AdminRequests |-> IdleAdminReq]

SpecAdmin == InitAdmin /\ [][AdminNext]_vars

\* a User that is not banned, then any sequence of its methods
SpecUser == InitUser /\ [][UserNext]_vars

\* the User's methods, each thrown error handed to the error handler
SpecUserErrors == InitUser /\ [][UserErrorsNext]_vars

\* the same for the Lawyer, the Client and the CompleteOnboarding requests
SpecLawyerErrors == Init /\ [][LawyerErrorsNext]_vars
SpecClientErrors == Init /\ [][ClientErrorsNext]_vars
SpecOnboardingErrors == Init /\ [][OnboardingErrorsNext]_vars

\* requests to POST /onboarding/complete, over a store in which the account
\* u1 has a client profile or not
InitOnboardingHttp ==
    /\ client = NoClient
    /\ ccall = NoCall
    /\ lawyer = NoLawyer
    /\ lcall = NoLawyerCall
    /\ lscript = ScriptStart
    /\ dbClients \in {{}, {[id |-> 1, userId |-> <<"u", "1">>, country |-> <<"U", "S">>,
                            state |-> <<"C", "A">>]}}
    /\ dbClientSpecs = {[clientId |-> row.id, specializationId |-> 1] : row \in dbClients}
    /\ dbUserOnb = [u \in Users |-> \E row \in dbClients : row.userId = u]
    /\ req = [r \in Requests |-> IdleReq]
    /\ HttpInit
    /\ UserInit

SpecOnboardingHttp == InitOnboardingHttp /\ [][OnboardingHttpNext]_vars

\* replacements of a lawyer's specializations and languages, and reads of the
\* lawyer by other requests
SpecLawyerDb == Init /\ [][LawyerDbNext]_vars

\* the User's methods while time passes
UserClockNext ==
    \/ UserNext
    \/ Tick

SpecUserClock == InitUser /\ [][UserClockNext]_vars

\* admin requests one at a time, over a store in which no admin is banned
InitAdminClean ==
    /\ InitAdmin
    /\ \A id \in AccountIds : ~(dbUsers[id].role = "admin" /\ dbUsers[id].banned)

SpecAdminSeq == InitAdminClean /\ [][AdminSeqNext]_vars

\* CompleteOnboarding requests and an UpdateUserProfile request over one store
SpecOnboardingProfile == Init /\ [][OnboardingProfileNext]_vars

\* CompleteOnboarding requests, and the saved profiles loaded again
SpecOnboardingReload == Init /\ [][OnboardingReloadNext]_vars

\* a Lawyer built by create, then any sequence of calls on it
SpecLawyer == Init /\ [][LawyerNext]_vars

\* the same calls on a Lawyer built by create or reconstituted from the store
SpecLawyerAny == InitLawyerAny /\ [][LawyerNext]_vars

-----------------------------------------------------------------------------
(* Lawyer aggregate: properties *)

\* the writes of request r that the store holds
RowsOf(r) == {row \in dbClients : row.id = r}
SpecRowsIn(r) == {row \in dbClientSpecs : row.clientId = r}

\* request r ended in one of the failures of execute before save
FailedBeforeSave(q) ==
    /\ q.pc = "done"
    /\ ~q.ok
    /\ q.err[1] \in {"UnauthorizedException", "ClientAlreadyExistsError", "ValidationException"}

\* C1: a CompleteOnboarding request that fails at a step of execute (email not
\* verified, profile already exists, unknown specialization id, empty country
\* or state, name shorter than 2 characters, specialization count outside 1..3)
\* never has clientRepository.save invoked: no clients row, no
\* client_specializations row, and the step at which it fails changes neither
\* table nor the user's onboarding flag; a flag is set only for a user one of
\* whose requests succeeded.
C1_NoSaveOnFailure ==
    /\ [](\A r \in Requests :
            (FailedBeforeSave(req[r]) \/ req[r].defect) =>
                /\ ~req[r].saveCalled
                /\ ~req[r].ok
                /\ RowsOf(r) = {}
                /\ SpecRowsIn(r) = {})
    /\ [](\A u \in Users :
            dbUserOnb[u] => \E r \in Requests : req[r].ok /\ req[r].userId = u)
    /\ [][\A r \in Requests :
            (~FailedBeforeSave(req[r]) /\ FailedBeforeSave(req'[r])) =>
                /\ dbClients' = dbClients
                /\ dbClientSpecs' = dbClientSpecs
                /\ dbUserOnb' = dbUserOnb]_vars

\* C1 witness: one request has stored its profile, and another one, whose input
\* has one of the listed defects, has failed on a ValidationException
C1_Witness ==
    \E r, o \in Requests :
        /\ r # o
        /\ req[o].ok /\ RowsOf(o) # {} /\ dbUserOnb[req[o].userId]
        /\ FailedBeforeSave(req[r]) /\ req[r].defect
        /\ req[r].err[1] = "ValidationException"

\* C2: whatever the interleaving of concurrent CompleteOnboarding requests for
\* one account, the store holds at most one clients row for the account and at
\* most one of the requests returns successfully.
C2_AtMostOneProfilePerUser ==
    \A u \in Users :
        /\ Cardinality({row \in dbClients : row.userId = u}) <= 1
        /\ Cardinality({r \in Requests : req[r].ok /\ req[r].userId = u}) <= 1

\* C2 witness: two requests for one account both passed the findByUserId check
\* and called save; one committed, the other hit the unique constraint
C2_Witness ==
    \E r, o \in Requests :
        /\ r # o
        /\ req[r].userId = req[o].userId
        /\ req[r].saveCalled /\ req[o].saveCalled
        /\ req[o].ok /\ RowsOf(o) # {}
        /\ req[r].pc = "done" /\ ~req[r].ok
        /\ req[r].err = <<"DatabaseError", "unique_violation clients.user_id">>


StepOrder == [basic_info |-> 1, credentials |-> 2, specializations |-> 3, submitted |-> 4]

\* C3: on a Lawyer built by create, every call (returning or throwing) leaves
\* onboardingStep where it was or moves it to the next step of basic_info ->
\* credentials -> specializations -> submitted: never back, never over a step,
\* and never away from submitted.
C3_StepOnlyAdvancesByOne ==
    [][lawyer.exists =>
          /\ lawyer'.exists
          /\ \/ lawyer'.onboardingStep = lawyer.onboardingStep
             \/ StepOrder[lawyer'.onboardingStep] = StepOrder[lawyer.onboardingStep] + 1
          /\ lawyer.onboardingStep = "submitted" => lawyer'.onboardingStep = "submitted"]_vars

\* C3 witness: the lawyer went through every step to submitted, and a further
\* saveCredentials or saveSpecializations call was made on it there.
C3_Witness ==
    /\ lawyer.onboardingStep = "submitted"
    /\ Len(lawyer.events) = 4
    /\ lcall.op \in {"saveCredentials", "saveSpecializations"}

\* C4 (the claim as stated): when the calls made on a Lawyer built by create are
\* saveCredentials, saveSpecializations and submitForReview in that order, each
\* with valid data and no other call between them, every one of them returns
\* and the lawyer ends at step submitted.
C4_InOrderWithValidDataSucceeds ==
    /\ lscript.pos >= 1 => lscript.ok
    /\ lscript.pos = 3 => lawyer.onboardingStep = "submitted"

Incomplete(l) ==
    \/ ~l.barCredentials.present
    \/ ~l.education.present
    \/ Len(l.documents) = 0
    \/ Len(l.specializations) = 0

\* C6: submitForReview on a lawyer at step specializations that lacks bar
\* credentials, education, a document or a specialization throws
\* IncompleteOnboardingError and leaves the step at specializations,
\* profileCompleted false and the domain events as they were.
C6_IncompleteSubmissionRefused ==
    [][(lcall'.op = "submitForReview" /\ lawyer.onboardingStep = "specializations"
          /\ Incomplete(lawyer)) =>
          /\ ~lcall'.ok
          /\ lcall'.err[1] = "IncompleteOnboardingError"
          /\ lawyer'.onboardingStep = "specializations"
          /\ ~lawyer'.profileCompleted
          /\ lawyer'.events = lawyer.events]_vars

\* C6 witness: a submission was refused on a lawyer that holds a document and a
\* specialization and lacks its bar credentials.
C6_Witness ==
    /\ lcall.op = "submitForReview"
    /\ ~lcall.ok
    /\ lawyer.onboardingStep = "specializations"
    /\ ~lawyer.barCredentials.present
    /\ Len(lawyer.documents) >= 1
    /\ Len(lawyer.specializations) >= 1

\* C7: saveCredentials at a step other than basic_info, and saveSpecializations
\* at a step other than credentials, throw InvalidOnboardingStepError and leave
\* the whole aggregate (step, bar credentials, education, specializations,
\* languages, domain events) as it was.
C7_WrongStepRefused ==
    [][(\/ lcall'.op = "saveCredentials" /\ lawyer.exists
              /\ lawyer.onboardingStep # "basic_info"
        \/ lcall'.op = "saveSpecializations" /\ lawyer.exists
              /\ lawyer.onboardingStep # "credentials") =>
          /\ ~lcall'.ok
          /\ lcall'.err[1] = "InvalidOnboardingStepError"
          /\ lawyer' = lawyer]_vars

\* C7 witness: saveSpecializations with valid data was refused on a lawyer still
\* at basic_info, that is before saveCredentials.
C7_Witness ==
    /\ lcall.op = "saveSpecializations"
    /\ lcall.valid
    /\ ~lcall.ok
    /\ lawyer.exists
    /\ lawyer.onboardingStep = "basic_info"
    /\ ~lawyer.education.present

-----------------------------------------------------------------------------
(* Client aggregate: properties *)

\* C8: a Client built by create starts with onboardingCompleted = false whatever
\* the input said; a completeOnboarding call on a profile not yet completed
\* succeeds and sets it; a call on a completed profile fails; and no call of any
\* method turns a completed profile back to not completed.
C8_OnboardingCompletedOnce ==
    /\ (ccall.op = "create" /\ ccall.ok) => ~client.onboardingCompleted
    /\ ccall.op = "completeOnboarding" =>
          /\ ~ccall.pre.onboardingCompleted => (ccall.ok /\ client.onboardingCompleted)
          /\ ccall.pre.onboardingCompleted =>
                (~ccall.ok /\ ccall.err[1] = "ValidationException" /\ client.onboardingCompleted)
    /\ ccall.pre.onboardingCompleted => client.onboardingCompleted

\* C8 witness: a second completeOnboarding was refused on a profile whose create
\* was handed onboardingCompleted = true or false and that was completed once.
C8_Witness ==
    /\ ccall.op = "completeOnboarding"
    /\ ~ccall.ok
    /\ ccall.pre.onboardingCompleted
    /\ client.onboardingCompleted

\* C9: the number of specializationIds of a Client built by create is between 1
\* and 3 in every state, after successful and failing calls alike.
C9_SpecializationCountInRange ==
    client.exists =>
        /\ Len(client.specializationIds) >= 1
        /\ Len(client.specializationIds) <= 3

\* C9 witness: an addSpecialization was refused at 3 specializations, or a
\* removeSpecialization was refused at 1.
C9_Witness ==
    /\ client.exists
    /\ ~ccall.ok
    /\ \/ ccall.op = "addSpecialization" /\ Len(client.specializationIds) = 3
       \/ ccall.op = "removeSpecialization" /\ Len(client.specializationIds) = 1

\* C10: addSpecialization fails exactly when the profile has 3 specializations
\* or already holds the id; removeSpecialization fails exactly when the profile
\* has 1 specialization or does not hold the id; a failing call leaves
\* specializationIds as it was.
C10_AddRemoveFailExactly ==
    /\ ccall.op = "addSpecialization" =>
          (~ccall.ok <=> (\/ Len(ccall.pre.specializationIds) = 3
                          \/ Includes(ccall.pre.specializationIds, ccall.arg[1])))
    /\ ccall.op = "removeSpecialization" =>
          (~ccall.ok <=> (\/ Len(ccall.pre.specializationIds) = 1
                          \/ ~Includes(ccall.pre.specializationIds, ccall.arg[1])))
    /\ (ccall.op \in {"addSpecialization", "removeSpecialization"} /\ ~ccall.ok) =>
          client.specializationIds = ccall.pre.specializationIds

\* C10 witness: a removeSpecialization of an id the profile does not hold was
\* refused on a profile with 2 specializations.
C10_Witness ==
    /\ ccall.op = "removeSpecialization"
    /\ ~ccall.ok
    /\ Len(ccall.pre.specializationIds) = 2
    /\ ~Includes(ccall.pre.specializationIds, ccall.arg[1])

\* the acting user, as handed to the use case, is an admin that is not banned
ActsAsAdmin(q) == q.actor.role = "admin" /\ ~q.actor.banned

\* C11: ListUsers, BanUser, UnbanUser and ChangeUserRole succeed only for an
\* acting user that has role admin and is not banned; for any other acting user
\* the use case fails with a ForbiddenException before the target is read and
\* without a repository update: its error is a function of the acting user
\* alone, whether the target exists or not.
C11_AdminOnly ==
    \A r \in AdminRequests :
        LET q == areq[r]
        IN /\ q.ok => ActsAsAdmin(q)
           /\ (q.pc \notin {"idle", "authorize"} /\ ~ActsAsAdmin(q)) =>
                 /\ q.pc = "done"
                 /\ ~q.ok
                 /\ q.err = IF q.actor.role # "admin"
                             THEN <<"ForbiddenException",
                                    "Only administrators can perform this action">>
                         ELSE <<"ForbiddenException",
                                "Banned users cannot perform admin actions">>
                 /\ ~q.readTarget
                 /\ ~q.updated

\* C11 witness: a BanUser of an account that does not exist, by an admin that
\* is banned, was refused; and a request of an admin that is not banned has
\* written its target.
C11_Witness ==
    \E r, o \in AdminRequests :
        /\ areq[r].pc = "done" /\ areq[r].kind = "BanUser"
        /\ areq[r].targetId = MissingAccountId
        /\ areq[r].actor.role = "admin" /\ areq[r].actor.banned
        /\ areq[r].err = <<"ForbiddenException", "Banned users cannot perform admin actions">>
        /\ areq[o].ok /\ areq[o].updated

\* C12: canBanUser(target, actor) is true exactly when the actor is an admin,
\* the target is another account and the target is not an admin; a BanUser
\* whose target is the acting admin or an admin fails with a ForbiddenException
\* and writes nothing, and every BanUser that writes has written an account
\* that was neither the actor nor an admin when it was read.
C12_CanBanUser ==
    /\ \A t, a \in AccountIds :
          canBanUser(findById(t), findById(a))
              <=> (/\ dbUsers[a].role = "admin"
                   /\ t # a
                   /\ dbUsers[t].role # "admin")
    /\ \A r \in AdminRequests :
          LET q == areq[r]
          IN (q.kind = "BanUser" /\ q.readTarget /\ q.target # NoUser) =>
                /\ (q.target.id = q.actor.id \/ q.target.role = "admin") =>
                      /\ q.pc = "done"
                      /\ ~q.ok
                      /\ q.err = <<"ForbiddenException", "You cannot ban this user">>
                      /\ ~q.updated
                /\ (q.pc = "update" \/ q.updated) =>
                      (q.target.id # q.actor.id /\ q.target.role # "admin")

\* C12 witness: an admin's ban of another admin was refused, and the same
\* admin's ban of a client was written.
C12_Witness ==
    \E r, o \in AdminRequests :
        /\ areq[r].kind = "BanUser" /\ areq[r].pc = "done" /\ ~areq[r].ok
        /\ areq[r].target.role = "admin" /\ areq[r].target.id # areq[r].actor.id
        /\ areq[r].err = <<"ForbiddenException", "You cannot ban this user">>
        /\ areq[o].kind = "BanUser" /\ areq[o].updated
        /\ areq[o].actorId = areq[r].actorId
        /\ dbUsers[areq[o].targetId].banned

\* C13: a ChangeUserRole whose target is the acting admin fails with a
\* ForbiddenException whatever role is requested and writes nothing; every
\* ChangeUserRole that writes has a target other than its actor.
C13_NoSelfRoleChange ==
    \A r \in AdminRequests :
        LET q == areq[r]
        IN q.kind = "ChangeUserRole" =>
              /\ (q.targetId = q.actorId /\ q.pc \notin {"idle", "authorize", "find"}) =>
                    /\ q.pc = "done"
                    /\ ~q.ok
                    /\ q.err[1] = "ForbiddenException"
                    /\ ~q.updated
              /\ (q.pc = "update" \/ q.updated) => q.targetId # q.actorId

\* C13 witness: an admin that is not banned asked for its own role to become
\* client and was refused, its stored role still admin.
C13_Witness ==
    \E r \in AdminRequests :
        /\ areq[r].kind = "ChangeUserRole" /\ areq[r].pc = "done"
        /\ areq[r].targetId = areq[r].actorId
        /\ ActsAsAdmin(areq[r])
        /\ areq[r].newRole = "client"
        /\ areq[r].err = <<"ForbiddenException", "You cannot change this user's role">>
        /\ dbUsers[areq[r].actorId].role = "admin"

\* C18: save is all or nothing.  In every state of the committed tables, which
\* is what another request reads, a request's clients row, all of its
\* client_specializations rows and its user's onboarding flag are there
\* together or not at all; a request whose transaction failed has left none.
C18_SaveAllOrNothing ==
    /\ \A r \in Requests :
          /\ RowsOf(r) # {} =>
                /\ req[r].ok
                /\ Cardinality(SpecRowsIn(r)) = req[r].specializationCount
                /\ req[r].specializationCount >= 1
                /\ dbUserOnb[req[r].userId]
          /\ RowsOf(r) = {} => SpecRowsIn(r) = {}
          /\ (req[r].pc = "done" /\ ~req[r].ok) => (RowsOf(r) = {} /\ SpecRowsIn(r) = {})
    /\ \A u \in Users :
          dbUserOnb[u] <=> \E row \in dbClients : row.userId = u

\* C18 witness: one request committed a profile with 3 specializations, and the
\* transaction of another one, for another user, failed after save was called.
C18_Witness ==
    \E r, o \in Requests :
        /\ req[r].ok /\ RowsOf(r) # {} /\ Cardinality(SpecRowsIn(r)) = 3
        /\ req[o].pc = "done" /\ req[o].saveCalled
        /\ req[o].err = <<"DatabaseError", "statement failed">>
        /\ req[o].userId # req[r].userId
        /\ ~dbUserOnb[req[o].userId]

\* the ids of a list that no row of the catalog has, in the order of the list
RECURSIVE AbsentIds(_)
AbsentIds(ids) ==
    IF Len(ids) = 0 THEN <<>>
    ELSE (IF Head(ids) \in Catalog THEN <<>> ELSE <<Head(ids)>>) \o AbsentIds(Tail(ids))

\* C19 (the claim as stated): validateSpecializations(ids) fails if and only if
\* some id of ids is absent from the catalog, and the ValidationException it
\* throws names exactly the ids of the input that are absent; for every list,
\* lists with repeated ids and the empty list included.
C19_RejectsExactlyAbsentIds ==
    \A r \in Requests :
        req[r].idsRead =>
            LET failed == /\ req[r].pc = "done"
                          /\ ~req[r].ok
                          /\ Len(req[r].err) = 3
                          /\ req[r].err[2] = "Invalid specialization IDs"
            IN /\ failed <=> AbsentIds(req[r].ids) # <<>>
               /\ failed => req[r].err[3] = AbsentIds(req[r].ids)

\* C14: changeRole to the role the account holds fails with a
\* ValidationException and changes neither the role nor the event list;
\* changeRole to another role returns, sets the role and appends exactly one
\* UserRoleChanged event carrying the account id, the role held immediately
\* before the call, the new role and the acting admin's id.
C14_ChangeRoleEvent ==
    ucall.op = "changeRole" =>
        /\ ucall.pre.role = ucall.arg[1] =>
              /\ ~ucall.ok
              /\ ucall.err = <<"ValidationException", "User already has this role">>
              /\ user = ucall.pre
        /\ ucall.pre.role # ucall.arg[1] =>
              /\ ucall.ok
              /\ user.role = ucall.arg[1]
              /\ user.events =
                    Append(ucall.pre.events,
                           [type |-> "UserRoleChanged", userId |-> ucall.pre.id,
                            oldRole |-> ucall.pre.role, newRole |-> ucall.arg[1],
                            changedBy |-> ucall.arg[2]])

\* C14 witness: a second successful changeRole, whose event names as old role
\* the role the first one set.
C14_Witness ==
    /\ ucall.op = "changeRole"
    /\ ucall.ok
    /\ Len(user.events) = 2
    /\ user.events[1].type = "UserRoleChanged"
    /\ user.events[2].oldRole = user.events[1].newRole

C16_BanFieldsConsistent ==
    /\ ~user.banned => (user.banReason = Undefined /\ user.banExpires = NoDate)
    /\ user.banned =>
          /\ user.banReason # Undefined
          /\ Len(user.banReason) > 0
          /\ Len(Trim(user.banReason)) > 0

\* C16 witness: an account banned again after a ban and an unban.
C16_Witness ==
    /\ user.banned
    /\ Len(user.events) = 2
    /\ user.events[1].type = "UserBanned"
    /\ user.events[2].type = "UserBanned"

C20_AlreadyBannedIsConflict ==
    (resp.handled /\ resp.error[2] = "User is already banned") =>
        /\ InstanceOf(resp.error[1], "ConflictException")
        /\ resp.status = "CONFLICT"

\* C22: UnbanUser executed by an authorized admin on a target that exists and
\* is not banned does not raise an error and leaves the target unbanned.
C22_UnbanIdempotent ==
    \A r \in AdminRequests :
        (/\ areq[r].kind = "UnbanUser"
         /\ areq[r].pc = "done"
         /\ areq[r].readTarget
         /\ areq[r].target # NoUser
         /\ ~areq[r].target.banned) => areq[r].ok

\* C21: POST /onboarding/complete answers 401 without a valid session; with a
\* session of a verified email and a valid body it answers 201 and the profile
\* exists afterwards, or 409 when the account already had a profile.
C21_OnboardingStatuses ==
    hreq.pc = "done" =>
        /\ ~hreq.session.valid => hreq.status = "UNAUTHORIZED"
        /\ (/\ hreq.session.valid
            /\ hreq.session.emailVerified
            /\ SchemaAccepts(hreq.body)
            /\ ~Defective(ControllerDto(hreq.session, hreq.body))) =>
               IF hreq.hadProfile THEN hreq.status = "CONFLICT"
               ELSE hreq.status = "CREATED" /\ findByUserId(hreq.session.userId)

\* C23: while a lawyer's non-empty specializations (or languages) are replaced
\* by a new non-empty set, no findById by another request returns an empty set.
C23_NoEmptySetObserved ==
    lread.taken =>
        /\ "specializations" \in lread.replacing => lread.specializations # {}
        /\ "languages" \in lread.replacing => lread.languages # {}

C25_AnAdminRemains ==
    \E id \in AccountIds : dbUsers[id].role = "admin"

\* C26: when a BanUser request and a ChangeUserRole request on the same target
\* have both succeeded, the stored account is banned and carries the new role.
C26_NoLostUpdate ==
    \A b \in AdminRequests, c \in AdminRequests :
        (/\ areq[b].kind = "BanUser" /\ areq[b].pc = "done" /\ areq[b].ok
         /\ areq[c].kind = "ChangeUserRole" /\ areq[c].pc = "done" /\ areq[c].ok
         /\ areq[b].targetId = areq[c].targetId) =>
            /\ dbUsers[areq[b].targetId].banned
            /\ dbUsers[areq[b].targetId].role = areq[c].newRole

\* C27: from a store in which no admin account is banned, no sequence of
\* BanUser, UnbanUser and ChangeUserRole use cases stores an account that has
\* role admin and is banned.
C27_NoBannedAdmin ==
    \A id \in AccountIds : ~(dbUsers[id].role = "admin" /\ dbUsers[id].banned)

\* C28: once CompleteOnboarding has succeeded for an account, the stored
\* account's onboardingCompleted flag is true in every later state.
C28_OnboardedStaysOnboarded ==
    \A r \in Requests :
        (req[r].pc = "done" /\ req[r].ok) => dbUserOnb[req[r].userId]

\* C29: a profile saved by CompleteOnboarding and loaded again has
\* onboardingCompleted = true and the specialization ids that were saved, and
\* completeOnboarding on it fails as already completed.
C29_ReloadKeepsOnboarding ==
    /\ (ccall.op = "findByUserId" /\ client.exists) =>
          /\ client.onboardingCompleted
          /\ \A r \in Requests :
                (req[r].pc = "done" /\ req[r].ok /\ req[r].userId = client.userId) =>
                    {client.specializationIds[i] : i \in 1..Len(client.specializationIds)}
                        = {req[r].ids[i] : i \in 1..Len(req[r].ids)}
    /\ ccall.op = "completeOnboarding" =>
          /\ ~ccall.ok
          /\ ccall.err = <<"ValidationException", "Onboarding already completed">>

\* C30: every Lawyer whose onboardingStep is specializations holds at least
\* one specialization and at least one language.
C30_SpecializationsStepHasBoth ==
    (lawyer.exists /\ lawyer.onboardingStep = "specializations") =>
        /\ Len(lawyer.specializations) >= 1
        /\ Len(lawyer.languages) >= 1

====
